---- MODULE Spec2Model ----
(***************************************************************************)
(* Model of the asset-cycling core of Digital-Signage-v2.                  *)
(*                                                                         *)
(* The state is one AssetCycler (utils/assetDownloader) together with the  *)
(* JavaScript timer queue it arms timers on and the wall clock it reads.   *)
(* Each public method, and each timer callback, is one action.  A timer    *)
(* that is pending may fire at any step: the model does not order timers   *)
(* by deadline, so every schedule the event loop can produce is included.  *)
(***************************************************************************)
EXTENDS Integers, Sequences, FiniteSets, TLC

(***************************************************************************)
(* Bounds of the model.                                                    *)
(***************************************************************************)
MaxAssets == 3      \* longest asset sequence of a PlaylistCycle
MaxTimers == 2      \* most timers of one kind pending at once
MaxTime == 2        \* the clock runs over 0..MaxTime

(***************************************************************************)
(* Values.                                                                 *)
(***************************************************************************)
NULL == 0                      \* a timer field holding null
Handles == 1..MaxTimers        \* timer handles returned by setTimeout/setInterval
NaN == -1                      \* getTime() of an Invalid Date

\* WebviewAsset, reduced to the fields the cycler reads (id, displayTime).
\* A sequence may hold the same asset twice; one display time is 0 seconds.
WebviewAsset ==
    { [id |-> "a", displayTime |-> 5],
      [id |-> "b", displayTime |-> 0] }

AssetIds == {"a", "b", "zz"}   \* "zz" is in no playlist

RECURSIVE SeqsUpTo(_, _)
SeqsUpTo(S, n) ==
    IF n = 0 THEN {<<>>}
    ELSE LET shorter == SeqsUpTo(S, n - 1)
         IN  shorter \cup { Append(s, x) : s \in {t \in shorter : Len(t) = n - 1}, x \in S }

\* startDate / endDate of a PlaylistCycle: null, an unparseable string, or an
\* ISO string denoting the instant t.
DateInputs ==
    { [kind |-> "null", t |-> 0], [kind |-> "invalid", t |-> 0] }
    \cup { [kind |-> "iso", t |-> t] : t \in 0..(MaxTime - 1) }

PlaylistCycle ==
    [ assets : SeqsUpTo(WebviewAsset, MaxAssets),
      startDate : DateInputs,
      endDate : DateInputs ]

VARIABLES
    currentPlaylist,     \* AssetCycler.currentPlaylist
    currentAssetIndex,   \* AssetCycler.currentAssetIndex (0-based)
    cycleTimer,          \* AssetCycler.cycleTimer: a handle or NULL
    dateCheckTimer,      \* AssetCycler.dateCheckTimer: a handle or NULL
    timeouts,            \* pending setTimeout timers: handle -> delay in ms
    intervals,           \* pending setInterval timers: set of handles
    now,                 \* the clock read by new Date()
    calls,               \* onAssetChange invocations made by the last step
    lastOp,              \* the last step: operation, argument, return value
    dateStatus,          \* what getDateStatus returned, if the last step called it
    stopped              \* stopCycle has run and no start/skip presented since

vars == << currentPlaylist, currentAssetIndex, cycleTimer, dateCheckTimer,
           timeouts, intervals, now, calls, lastOp, dateStatus, stopped >>

\* State of one run of the AssetDownloader (see the downloader section).
VARIABLES
    job,                 \* the call under way: entry point, assets, parameters
    tasks,               \* one downloadAsset call per asset of the job
    results,             \* the results array of downloadAllAssets[Parallel]
    dlStatus             \* "running", "returned" or "thrown"

dlVars == << job, tasks, results, dlStatus >>

\* No download is under way while the cycler runs.
NoJob == [entry |-> "none", assets |-> << >>, retries |-> 0, maxRetries |-> 0, concurrency |-> 0]
DlIdle ==
    /\ job = NoJob
    /\ tasks = << >>
    /\ results = << >>
    /\ dlStatus = "returned"

\* State of one run of initializeDigitalSignage (see the initializer section).
VARIABLES
    config,              \* the InitializationConfig of the run
    device,              \* what DeviceInfo.getDeviceName() does: a name, "", or "throws"
    entries,             \* the entries of the assets directory when the run starts
    response,            \* what the manifest endpoint answers to fetch(apiURL)
    pc,                  \* the await or return the run has reached
    deviceName,          \* initialize's local deviceName ("" is null)
    apiResponse,         \* initialize's local apiResponse: << >> or << manifest >>
    downloadResults,     \* the results array downloadAllAssets returned
    webviewManifest,     \* webview-manifest.json: << >> or << content >>
    playlistCycles,      \* the cycles downloadAssets returned
    initResult,          \* what initialize() returned: << >> or << result >>
    returned,            \* what initializeDigitalSignage returned: << >> or << result >>
    stages,              \* the stages the run has entered, in order
    notifications        \* what onProgress has been called with, in order

orchVars == << config, device, entries, response, pc, deviceName, apiResponse, downloadResults,
               webviewManifest, playlistCycles, initResult, returned, stages,
               notifications >>

\* No manifest request has been made.
NoResponse == [kind |-> "none", status |-> 0, message |-> << >>, data |-> << >>]

\* No initialization is under way while the cycler or the downloader runs.
OrchIdle ==
    /\ config = [clearAssetsOnStart |-> FALSE, enableProgressTracking |-> FALSE]
    /\ device = ""
    /\ entries = 0
    /\ response = NoResponse
    /\ pc = "idle"
    /\ deviceName = ""
    /\ apiResponse = << >>
    /\ downloadResults = << >>
    /\ webviewManifest = << >>
    /\ playlistCycles = << >>
    /\ initResult = << >>
    /\ returned = << >>
    /\ stages = << >>
    /\ notifications = << >>

\* Inputs and outputs of generateSafeFilename (see the filename section).
VARIABLES
    fnAssets,            \* the two assets whose filenames are derived
    filenames            \* filenames[k]: << >> or << filename of fnAssets[k] >>

fnVars == << fnAssets, filenames >>

\* No filename is being derived.
FnIdle ==
    /\ fnAssets = << >>
    /\ filenames = << >>

\* State of the Index screen (see the app section).
VARIABLES
    isLoading,           \* Index.isLoading
    activePlaylist,      \* what setCurrentPlaylist received: << >> or << cycle >>
    errorMessage         \* what the catch block shows: << >> or << message >>

appVars == << isLoading, activePlaylist, errorMessage >>

\* The Index screen has not been mounted.
AppIdle ==
    /\ isLoading = TRUE
    /\ activePlaylist = << >>
    /\ errorMessage = << >>

assets == currentPlaylist.assets
NumAssets == Len(assets)

(***************************************************************************)
(* JavaScript Date semantics.                                              *)
(***************************************************************************)
\* `if (date)`: null and the empty string are falsy.
Truthy(d) == d.kind # "null"

\* new Date(string): the instant, or an Invalid Date.
NewDate(d) == IF d.kind = "iso" THEN d.t ELSE NaN

\* Relational operators on Dates: any comparison with NaN is false.
JsLt(x, y) == x # NaN /\ y # NaN /\ x < y
JsGt(x, y) == x # NaN /\ y # NaN /\ x > y
JsLe(x, y) == x # NaN /\ y # NaN /\ x <= y

(***************************************************************************)
(* Timer queue.                                                            *)
(***************************************************************************)
\* The handle a new timer gets: one that no pending timer of its kind has.
FreshHandle(used) == CHOOSE h \in Handles \ used : \A g \in Handles \ used : h <= g

\* clearTimeout(h) / clearInterval(h)
ClearTimeout(tos, h) == [g \in (DOMAIN tos) \ {h} |-> tos[g]]
ClearInterval(ivs, h) == ivs \ {h}

\* setTimeout(callback, ms) on the queue tos
SetTimeout(tos, ms) ==
    LET h == FreshHandle(DOMAIN tos)
    IN  [g \in (DOMAIN tos) \cup {h} |-> IF g = h THEN ms ELSE tos[g]]

(***************************************************************************)
(* AssetCycler: pure parts.                                                *)
(***************************************************************************)
\* AssetCycler.isPlaylistActive(): the cycler's private window check.
AssetCycler_isPlaylistActive(pl, t) ==
    IF Truthy(pl.startDate) /\ JsLt(t, NewDate(pl.startDate)) THEN FALSE
    ELSE IF Truthy(pl.endDate) /\ JsGt(t, NewDate(pl.endDate)) THEN FALSE
    ELSE TRUE

\* isPlaylistActive with the end timestamp still inside the window.
isPlaylistActive_EndInclusive(startDate, endDate, t) ==
    IF Truthy(startDate) /\ JsGt(NewDate(startDate), t) THEN FALSE
    ELSE IF Truthy(endDate) /\ JsLt(NewDate(endDate), t) THEN FALSE
    ELSE TRUE

\* isPlaylistActive(startDate, endDate) of the date utilities.
isPlaylistActive(startDate, endDate, t) ==
    IF Truthy(startDate) /\ JsGt(NewDate(startDate), t) THEN FALSE
    ELSE IF Truthy(endDate) /\ JsLe(NewDate(endDate), t) THEN FALSE
    ELSE TRUE

\* assets.findIndex(asset => asset.id === assetId): 0-based, -1 when absent.
FindIndex(as, assetId) ==
    IF \E i \in 1..Len(as) : as[i].id = assetId
    THEN (CHOOSE i \in 1..Len(as) :
             /\ as[i].id = assetId
             /\ \A j \in 1..(i - 1) : as[j].id # assetId) - 1
    ELSE -1

\* nextAsset without the wrap: the index stays on the last asset.
NextIndex_NoWrap(i, n) == IF i + 1 < n THEN i + 1 ELSE i

\* nextAsset(): the index after i in a cycle of n assets.
NextIndex(i, n) == (i + 1) % n

\* showCurrentAsset announcing the timer delay (ms) instead of the seconds.
Announce_Millis(i) ==
    [asset |-> assets[i + 1], remainingTime |-> assets[i + 1].displayTime * 1000]

\* The onAssetChange invocation showCurrentAsset makes for the asset at index i.
Announce(i) ==
    [asset |-> assets[i + 1], remainingTime |-> assets[i + 1].displayTime]

\* The delay, in ms, showCurrentAsset arms the advance timer with.
AdvanceDelay(i) == assets[i + 1].displayTime * 1000

(***************************************************************************)
(* AssetCycler: state changes.                                             *)
(***************************************************************************)
\* showCurrentAsset() at index i, on the timer queue tos: announces the asset
\* and stores a new one-shot timer in cycleTimer.  The timer cycleTimer held
\* before is not cleared here.
showCurrentAsset(i, tos) ==
    /\ calls' = << Announce(i) >>
    /\ timeouts' = SetTimeout(tos, AdvanceDelay(i))
    /\ cycleTimer' = FreshHandle(DOMAIN tos)

\* The timer queues after stopCycle().
StopTimeouts == IF cycleTimer # NULL THEN ClearTimeout(timeouts, cycleTimer) ELSE timeouts
StopIntervals == IF dateCheckTimer # NULL THEN ClearInterval(intervals, dateCheckTimer) ELSE intervals

Op(name, arg, ret) == [op |-> name, arg |-> arg, ret |-> ret]

Init ==
    /\ currentPlaylist \in PlaylistCycle
    /\ currentAssetIndex = 0
    /\ cycleTimer = NULL
    /\ dateCheckTimer = NULL
    /\ timeouts = << >>
    /\ intervals = {}
    /\ now = 0
    /\ calls = << >>
    /\ lastOp = Op("new", "-", "void")
    /\ dateStatus = << >>
    /\ stopped = FALSE
    /\ DlIdle
    /\ OrchIdle
    /\ FnIdle
    /\ AppIdle

\* startCycle()
startCycle ==
    /\ lastOp' = Op("startCycle", "-", "void")
    /\ dateStatus' = << >>
    /\ IF NumAssets = 0 \/ ~AssetCycler_isPlaylistActive(currentPlaylist, now)
       THEN /\ calls' = << >>
            /\ UNCHANGED << dlVars, orchVars, fnVars, appVars, currentPlaylist, currentAssetIndex, cycleTimer,
                            dateCheckTimer, timeouts, intervals, now, stopped >>
       ELSE /\ Cardinality(DOMAIN timeouts) < MaxTimers
            /\ Cardinality(intervals) < MaxTimers
            /\ showCurrentAsset(currentAssetIndex, timeouts)
            /\ dateCheckTimer' = FreshHandle(intervals)
            /\ intervals' = intervals \cup {FreshHandle(intervals)}
            /\ stopped' = FALSE
            /\ UNCHANGED << dlVars, orchVars, fnVars, appVars, currentPlaylist, currentAssetIndex, now >>

\* stopCycle clearing one timer per call: the re-check timer only when no
\* advance timer is held.
stopCycle_OneTimerPerCall ==
    /\ lastOp' = Op("stopCycle", "-", "void")
    /\ dateStatus' = << >>
    /\ calls' = << >>
    /\ IF cycleTimer # NULL
       THEN /\ timeouts' = StopTimeouts
            /\ cycleTimer' = NULL
            /\ UNCHANGED << intervals, dateCheckTimer >>
       ELSE /\ intervals' = StopIntervals
            /\ dateCheckTimer' = NULL
            /\ UNCHANGED << timeouts, cycleTimer >>
    /\ stopped' = TRUE
    /\ UNCHANGED << dlVars, orchVars, fnVars, appVars, currentPlaylist, currentAssetIndex, now >>

\* stopCycle going back to the first asset.
stopCycle_ResetsIndex ==
    /\ lastOp' = Op("stopCycle", "-", "void")
    /\ dateStatus' = << >>
    /\ calls' = << >>
    /\ timeouts' = StopTimeouts
    /\ intervals' = StopIntervals
    /\ cycleTimer' = NULL
    /\ dateCheckTimer' = NULL
    /\ currentAssetIndex' = 0
    /\ stopped' = TRUE
    /\ UNCHANGED << dlVars, orchVars, fnVars, appVars, currentPlaylist, now >>

\* stopCycle()
stopCycle ==
    /\ lastOp' = Op("stopCycle", "-", "void")
    /\ dateStatus' = << >>
    /\ calls' = << >>
    /\ timeouts' = StopTimeouts
    /\ intervals' = StopIntervals
    /\ cycleTimer' = NULL
    /\ dateCheckTimer' = NULL
    /\ stopped' = TRUE
    /\ UNCHANGED << dlVars, orchVars, fnVars, appVars, currentPlaylist, currentAssetIndex, now >>

\* skipToAsset without its stopCycle() call.
skipToAsset_NoStop(assetId) ==
    LET index == FindIndex(assets, assetId)
    IN  IF index = -1
        THEN /\ lastOp' = Op("skipToAsset", assetId, "false")
             /\ dateStatus' = << >>
             /\ calls' = << >>
             /\ UNCHANGED << dlVars, orchVars, fnVars, appVars, currentPlaylist, currentAssetIndex, cycleTimer,
                             dateCheckTimer, timeouts, intervals, now, stopped >>
        ELSE /\ Cardinality(DOMAIN timeouts) < MaxTimers
             /\ lastOp' = Op("skipToAsset", assetId, "true")
             /\ dateStatus' = << >>
             /\ currentAssetIndex' = index
             /\ showCurrentAsset(index, timeouts)
             /\ stopped' = FALSE
             /\ UNCHANGED << dlVars, orchVars, fnVars, appVars, currentPlaylist, dateCheckTimer, intervals, now >>

\* skipToAsset calling stopCycle() before it looks the id up.
skipToAsset_StopFirst(assetId) ==
    LET index == FindIndex(assets, assetId)
    IN  IF index = -1
        THEN /\ lastOp' = Op("skipToAsset", assetId, "false")
             /\ dateStatus' = << >>
             /\ calls' = << >>
             /\ timeouts' = StopTimeouts
             /\ intervals' = StopIntervals
             /\ cycleTimer' = NULL
             /\ dateCheckTimer' = NULL
             /\ stopped' = TRUE
             /\ UNCHANGED << dlVars, orchVars, fnVars, appVars, currentPlaylist, currentAssetIndex, now >>
        ELSE /\ Cardinality(DOMAIN StopTimeouts) < MaxTimers
             /\ lastOp' = Op("skipToAsset", assetId, "true")
             /\ dateStatus' = << >>
             /\ intervals' = StopIntervals
             /\ dateCheckTimer' = NULL
             /\ currentAssetIndex' = index
             /\ showCurrentAsset(index, StopTimeouts)
             /\ stopped' = FALSE
             /\ UNCHANGED << dlVars, orchVars, fnVars, appVars, currentPlaylist, now >>

\* skipToAsset(assetId)
skipToAsset(assetId) ==
    LET index == FindIndex(assets, assetId)
    IN  IF index = -1
        THEN /\ lastOp' = Op("skipToAsset", assetId, "false")
             /\ dateStatus' = << >>
             /\ calls' = << >>
             /\ UNCHANGED << dlVars, orchVars, fnVars, appVars, currentPlaylist, currentAssetIndex, cycleTimer,
                             dateCheckTimer, timeouts, intervals, now, stopped >>
        ELSE /\ Cardinality(DOMAIN StopTimeouts) < MaxTimers
             /\ lastOp' = Op("skipToAsset", assetId, "true")
             /\ dateStatus' = << >>
             /\ intervals' = StopIntervals
             /\ dateCheckTimer' = NULL
             /\ currentAssetIndex' = index
             /\ showCurrentAsset(index, StopTimeouts)
             /\ stopped' = FALSE
             /\ UNCHANGED << dlVars, orchVars, fnVars, appVars, currentPlaylist, now >>

\* The one-shot advance timer h fires: nextAsset().
AdvanceTimerFires(h) ==
    /\ h \in DOMAIN timeouts
    /\ lastOp' = Op("advanceTimer", "-", "void")
    /\ dateStatus' = << >>
    /\ currentAssetIndex' = NextIndex(currentAssetIndex, NumAssets)
    /\ showCurrentAsset(NextIndex(currentAssetIndex, NumAssets), ClearTimeout(timeouts, h))
    /\ UNCHANGED << dlVars, orchVars, fnVars, appVars, currentPlaylist, dateCheckTimer, intervals, now, stopped >>

\* The recurring date re-check timer h fires.
DateCheckTimerFires(h) ==
    /\ h \in intervals
    /\ lastOp' = Op("dateCheckTimer", "-", "void")
    /\ dateStatus' = << >>
    /\ calls' = << >>
    /\ IF ~AssetCycler_isPlaylistActive(currentPlaylist, now)
       THEN /\ timeouts' = StopTimeouts
            /\ intervals' = StopIntervals
            /\ cycleTimer' = NULL
            /\ dateCheckTimer' = NULL
            /\ stopped' = TRUE
       ELSE UNCHANGED << timeouts, intervals, cycleTimer, dateCheckTimer, stopped >>
    /\ UNCHANGED << dlVars, orchVars, fnVars, appVars, currentPlaylist, currentAssetIndex, now >>

\* The date utility isPlaylistActive(startDate, endDate), applied to the cycle.
CallIsPlaylistActive ==
    /\ lastOp' = Op("isPlaylistActive", "-",
                    IF isPlaylistActive(currentPlaylist.startDate, currentPlaylist.endDate, now)
                    THEN "true" ELSE "false")
    /\ dateStatus' = << >>
    /\ calls' = << >>
    /\ UNCHANGED << dlVars, orchVars, fnVars, appVars, currentPlaylist, currentAssetIndex, cycleTimer, dateCheckTimer,
                    timeouts, intervals, now, stopped >>

\* Math.max(0, date.getTime() - now.getTime()); NaN for an Invalid Date.
TimeUntil(d, t) ==
    IF NewDate(d) = NaN THEN NaN
    ELSE IF NewDate(d) - t > 0 THEN NewDate(d) - t ELSE 0

\* getDateStatus with the time until the end not cut off at 0.
getDateStatus_EndNotClamped(pl, t) ==
    [isActive |-> AssetCycler_isPlaylistActive(pl, t),
     timeUntilStart |-> IF Truthy(pl.startDate) THEN << TimeUntil(pl.startDate, t) >> ELSE << >>,
     timeUntilEnd |-> IF Truthy(pl.endDate) THEN << NewDate(pl.endDate) - t >> ELSE << >>]

\* AssetCycler.getDateStatus(): isActive and the times until start and end,
\* << >> being null.
getDateStatus(pl, t) ==
    [isActive |-> AssetCycler_isPlaylistActive(pl, t),
     timeUntilStart |-> IF Truthy(pl.startDate) THEN << TimeUntil(pl.startDate, t) >> ELSE << >>,
     timeUntilEnd |-> IF Truthy(pl.endDate) THEN << TimeUntil(pl.endDate, t) >> ELSE << >>]

\* The message SignageWebview shows for a status that is not active.
NotActiveMessage(status) ==
    << "Playlist is not active" >> \o
    IF /\ status.timeUntilStart # << >>
       /\ status.timeUntilStart[1] # NaN
       /\ status.timeUntilStart[1] # 0
    THEN << " - starts in ",
            ToString(status.timeUntilStart[1] \div (1000 * 60 * 60)), "h ",
            ToString((status.timeUntilStart[1] % (1000 * 60 * 60)) \div (1000 * 60)), "m" >>
    ELSE IF status.timeUntilEnd # << >> /\ status.timeUntilEnd[1] = 0
    THEN << " - has ended" >>
    ELSE << >>

\* getDateStatus() is called on the cycler.
CallGetDateStatus ==
    /\ lastOp' = Op("getDateStatus", "-", "void")
    /\ dateStatus' = << getDateStatus(currentPlaylist, now) >>
    /\ calls' = << >>
    /\ UNCHANGED << dlVars, orchVars, fnVars, appVars, currentPlaylist, currentAssetIndex, cycleTimer, dateCheckTimer,
                    timeouts, intervals, now, stopped >>

\* Time passes.
Tick ==
    /\ now < MaxTime
    /\ now' = now + 1
    /\ lastOp' = Op("tick", "-", "void")
    /\ dateStatus' = << >>
    /\ calls' = << >>
    /\ UNCHANGED << dlVars, orchVars, fnVars, appVars, currentPlaylist, currentAssetIndex, cycleTimer, dateCheckTimer,
                    timeouts, intervals, stopped >>

Next ==
    \/ startCycle
    \/ stopCycle
    \/ \E assetId \in AssetIds : skipToAsset(assetId)
    \/ \E h \in Handles : AdvanceTimerFires(h)
    \/ \E h \in Handles : DateCheckTimerFires(h)
    \/ CallIsPlaylistActive
    \/ CallGetDateStatus
    \/ Tick

Spec == Init /\ [][Next]_vars

\* The event loop runs every pending timer and the clock advances.
FairSpec ==
    /\ Spec
    /\ \A h \in Handles : WF_vars(AdvanceTimerFires(h))
    /\ \A h \in Handles : WF_vars(DateCheckTimerFires(h))
    /\ WF_vars(Tick)

TypeOK ==
    /\ currentPlaylist \in PlaylistCycle
    /\ currentAssetIndex \in 0..MaxAssets
    /\ cycleTimer \in Handles \cup {NULL}
    /\ dateCheckTimer \in Handles \cup {NULL}
    /\ DOMAIN timeouts \subseteq Handles
    /\ intervals \subseteq Handles
    /\ now \in 0..MaxTime
    /\ Len(calls) <= 1
    /\ stopped \in BOOLEAN

(***************************************************************************)
(* Vocabulary of the properties.                                           *)
(***************************************************************************)
\* Both dates are absent or parseable timestamps.
DatesWellFormed == currentPlaylist.startDate.kind # "invalid" /\ currentPlaylist.endDate.kind # "invalid"

\* The active window [start, end) at time t.
WindowOpen(t) ==
    /\ (currentPlaylist.startDate.kind = "iso" => t >= currentPlaylist.startDate.t)
    /\ (currentPlaylist.endDate.kind = "iso" => t < currentPlaylist.endDate.t)

\* The window has closed for good: the end timestamp lies in the past.
WindowPast == currentPlaylist.endDate.kind = "iso" /\ now > currentPlaylist.endDate.t

\* Some asset of the cycle has this id.
IdPresent(assetId) == \E i \in 1..NumAssets : assets[i].id = assetId

\* The scheduler is Active: it holds an advance timer.
Active == cycleTimer # NULL

NoTimerPending == DOMAIN timeouts = {} /\ intervals = {}

(***************************************************************************)
(* C1: once stopCycle has returned, no advance timer and no date re-check  *)
(* timer is pending, and the handler is not invoked until a later explicit *)
(* startCycle or skipToAsset.                                              *)
(***************************************************************************)
C1_NoStaleTimerAfterStop ==
    /\ [](stopped => NoTimerPending)
    /\ [][(stopped /\ stopped') => calls' = << >>]_vars

(***************************************************************************)
(* C2: in every reachable state at most one advance timer is pending.      *)
(***************************************************************************)
C2_AtMostOneAdvanceTimer == Cardinality(DOMAIN timeouts) <= 1

(***************************************************************************)
(* C3: startCycle on an Active scheduler causes no transition: no handler  *)
(* invocation, no additional advance timer, no additional re-check timer.  *)
(***************************************************************************)
C3_StartOnlyFromIdle ==
    [][(lastOp'.op = "startCycle" /\ Active)
         => (calls' = << >> /\ timeouts' = timeouts /\ intervals' = intervals)]_vars

(***************************************************************************)
(* C4: under fair timer firing an Active cycle whose window has closed     *)
(* (the end timestamp is past) is eventually stopped: the re-check timer   *)
(* fires, finds the window closed and clears the timers, whatever          *)
(* operations preceded.                                                    *)
(***************************************************************************)
C4_ClosedWindowStopsCycle == (Active /\ WindowPast) ~> ~Active

(***************************************************************************)
(* C5: the window check startCycle applies is true exactly when the time   *)
(* is in [start, end): a cycle with assets is started by startCycle if and *)
(* only if start is absent or now >= start, and end is absent or now < end.*)
(***************************************************************************)
C5_CyclerWindowHalfOpen ==
    [][(lastOp'.op = "startCycle" /\ NumAssets > 0 /\ DatesWellFormed)
         => ((calls' # << >>) <=> WindowOpen(now))]_vars

(***************************************************************************)
(* C6: the date utility isPlaylistActive(start, end) returns true exactly  *)
(* when (start absent or start <= now) and (end absent or now < end).      *)
(***************************************************************************)
C6_UtilityWindowHalfOpen ==
    (lastOp.op = "isPlaylistActive" /\ DatesWellFormed)
        => ((lastOp.ret = "true") <=> WindowOpen(now))

\* The utility was asked at the instant the end timestamp is reached.
C6_Witness ==
    /\ lastOp.op = "isPlaylistActive"
    /\ lastOp.ret = "false"
    /\ currentPlaylist.startDate.kind = "iso"
    /\ currentPlaylist.endDate.kind = "iso"
    /\ currentPlaylist.startDate.t < now
    /\ currentPlaylist.endDate.t = now

(***************************************************************************)
(* C7: each firing of the advance timer sets the index to (index + 1) mod n*)
(* and announces the asset at the new index with its own duration; the     *)
(* index of a cycle of n >= 1 assets stays in 0..n-1.                      *)
(***************************************************************************)
C7_AdvanceWraps ==
    /\ [](NumAssets >= 1 => currentAssetIndex \in 0..(NumAssets - 1))
    /\ [][lastOp'.op = "advanceTimer"
            => /\ currentAssetIndex' = (currentAssetIndex + 1) % NumAssets
               /\ calls' = << [asset |-> assets[currentAssetIndex' + 1],
                               remainingTime |-> assets[currentAssetIndex' + 1].displayTime] >>]_vars

\* A 3-asset cycle has just wrapped from index 2 to index 0.
C7_Witness ==
    /\ lastOp.op = "advanceTimer"
    /\ NumAssets = 3
    /\ currentAssetIndex = 0
    /\ assets[1] # assets[3]

(***************************************************************************)
(* C8: the handler is invoked exactly once, with the asset that became     *)
(* current and its full displayTime in seconds, by a startCycle that       *)
(* starts, by an advance-timer firing and by a skipToAsset that finds its  *)
(* asset; it is invoked at no other time.                                  *)
(***************************************************************************)
C8_HandlerOncePerCurrent ==
    [][LET becomesCurrent ==
             \/ lastOp'.op = "advanceTimer"
             \/ lastOp'.op = "skipToAsset" /\ IdPresent(lastOp'.arg)
             \/ /\ lastOp'.op = "startCycle"
                /\ NumAssets > 0
                /\ AssetCycler_isPlaylistActive(currentPlaylist, now)
       IN  calls' = IF becomesCurrent
                    THEN << [asset |-> assets[currentAssetIndex' + 1],
                             remainingTime |-> assets[currentAssetIndex' + 1].displayTime] >>
                    ELSE << >>]_vars

\* startCycle has just announced an asset with a 5 second display time.
C8_Witness ==
    /\ lastOp.op = "startCycle"
    /\ Len(calls) = 1
    /\ calls[1].remainingTime = 5
    /\ calls[1].asset = assets[currentAssetIndex + 1]

(***************************************************************************)
(* C9: skipToAsset(id) with an id of the cycle cancels the advance timer   *)
(* the scheduler holds, sets the index to the position of that asset,      *)
(* presents it once, arms a fresh advance timer for its duration and       *)
(* returns true.                                                           *)
(***************************************************************************)
C9_SkipJumps ==
    [][(lastOp'.op = "skipToAsset" /\ IdPresent(lastOp'.arg))
         => /\ lastOp'.ret = "true"
            /\ assets[currentAssetIndex' + 1].id = lastOp'.arg
            /\ \A j \in 1..currentAssetIndex' : assets[j].id # lastOp'.arg
            /\ calls' = << [asset |-> assets[currentAssetIndex' + 1],
                            remainingTime |-> assets[currentAssetIndex' + 1].displayTime] >>
            /\ cycleTimer' \in DOMAIN timeouts'
            /\ timeouts'[cycleTimer'] = assets[currentAssetIndex' + 1].displayTime * 1000
            /\ Cardinality(DOMAIN timeouts')
                 = Cardinality(DOMAIN timeouts) - (IF Active THEN 1 ELSE 0) + 1]_vars

\* An Active cycle at index 0 of <<a, a, b>> was told to skip to b.
C9_Witness ==
    /\ lastOp = Op("skipToAsset", "b", "true")
    /\ NumAssets = 3
    /\ currentAssetIndex = 2
    /\ Cardinality(DOMAIN timeouts) = 1

(***************************************************************************)
(* C10: skipToAsset(id) with an id that is not in the cycle returns false  *)
(* and leaves index, advance timer and re-check timer untouched, without   *)
(* invoking the handler.                                                   *)
(***************************************************************************)
C10_SkipUnknownIsNoOp ==
    [][(lastOp'.op = "skipToAsset" /\ ~IdPresent(lastOp'.arg))
         => /\ lastOp'.ret = "false"
            /\ calls' = << >>
            /\ UNCHANGED << currentAssetIndex, cycleTimer, dateCheckTimer,
                            timeouts, intervals >>]_vars

\* An Active cycle with both timers armed was told to skip to an unknown id.
C10_Witness ==
    /\ lastOp = Op("skipToAsset", "zz", "false")
    /\ cycleTimer \in DOMAIN timeouts
    /\ dateCheckTimer \in intervals

(***************************************************************************)
(* C11: stopCycle may be called in any state and is idempotent: it leaves  *)
(* both timer fields empty, and a second stopCycle right after a first     *)
(* changes nothing.                                                        *)
(***************************************************************************)
C11_StopIdempotent ==
    /\ [](ENABLED stopCycle)
    /\ [][lastOp'.op = "stopCycle"
            => /\ cycleTimer' = NULL
               /\ dateCheckTimer' = NULL
               /\ lastOp.op = "stopCycle"
                    => UNCHANGED << dlVars, currentPlaylist, currentAssetIndex, cycleTimer,
                                    dateCheckTimer, timeouts, intervals, now, calls,
                                    stopped >>]_vars

\* stopCycle has run on a cycle that had advanced past its first asset.
C11_Witness ==
    /\ lastOp.op = "stopCycle"
    /\ currentAssetIndex > 0
    /\ cycleTimer = NULL
    /\ dateCheckTimer = NULL

(***************************************************************************)
(* C12: startCycle presents an asset and arms timers only if the cycle has *)
(* at least one asset and its window [start, end) is active at call time;  *)
(* otherwise it invokes no handler, arms no timer and leaves the index     *)
(* unchanged.                                                              *)
(***************************************************************************)
C12_StartInertWhenInactive ==
    [][(lastOp'.op = "startCycle" /\ DatesWellFormed /\ ~(NumAssets > 0 /\ WindowOpen(now)))
         => /\ calls' = << >>
            /\ UNCHANGED << currentAssetIndex, cycleTimer, dateCheckTimer,
                            timeouts, intervals >>]_vars

(***************************************************************************)
(* AssetDownloader.                                                        *)
(*                                                                         *)
(* One run of an entry point of the downloader: a direct downloadAsset     *)
(* call, downloadAllAssets, downloadAllAssetsParallel, or the initializer  *)
(* (which reaches downloadAllAssets through downloadAssets).  Every        *)
(* attempt of a downloadAsset call is one step; its network and file       *)
(* system outcome is chosen freely.                                        *)
(***************************************************************************)
MaxDlAssets == 3        \* most assets in the manifest of one run
MaxRetries == 3         \* largest retry count passed or configured
MaxConcurrency == 2     \* largest concurrency level of the batch mode

HardCodedRetries == 3   \* the literal passed by downloadAllAssets[Parallel]

\* Asset of the manifest, reduced to id, filetype and filepath.  A filepath
\* is the sequence of its parts, ".m3u8" being one part.
Asset ==
    { [id |-> "v", filetype |-> "video",  filepath |-> << "http://h/", "clip", ".mp4" >>],
      [id |-> "s", filetype |-> "stream", filepath |-> << "http://h/", "live" >>],
      [id |-> "m", filetype |-> "video",  filepath |-> << "http://h/", "live", ".m3u8" >>],
      [id |-> "q", filetype |-> "video",  filepath |-> << "http://h/", "live", ".m3u8", "?token=1" >>] }

\* filepath.includes(part)
Includes(path, part) == \E i \in 1..Len(path) : path[i] = part

\* downloadAsset's classification using the file type only.
Downloader_isStream_TypeOnly(asset) == asset.filetype = "stream"

\* downloadAsset's classification of an asset as a stream.
Downloader_isStream(asset) ==
    asset.filetype = "stream" \/ Includes(asset.filepath, ".m3u8")

\* preparePlaylistsForCycling's classification (isStream).
Compiler_isStream(asset) ==
    asset.filetype = "stream" \/ Includes(asset.filepath, ".m3u8")

\* prepareFinalResult's statistic streamsKept.
StreamsKept(res) ==
    Cardinality({ i \in 1..Len(res) :
                    /\ res[i].success
                    /\ (res[i].asset.filetype = "stream"
                          \/ Includes(res[i].asset.filepath, ".m3u8")) })

\* What one attempt can meet: success, a non-2xx status, a network error,
\* a file write error.  A stream probe writes no file.
Outcomes == {"ok", "http", "network", "write"}
ProbeOutcomes == {"ok", "http", "network"}

\* error.message of the error an attempt throws.
ErrorMessage(outcome) ==
    CASE outcome = "http" -> "HTTP error! status: 404"
      [] outcome = "network" -> "Network request failed"
      [] outcome = "write" -> "ENOSPC: no space left on device"
      [] OTHER -> "Unknown error"

\* path.join(this.assetsDir, filename): the filename starts with the asset id.
LocalPath(asset) == << "./assets/main/", asset.id, "_" >>

\* The backoff with a 0-based attempt number.
BackoffDelay_ZeroBased(attempt) == (2 ^ (attempt - 1)) * 1000

\* Math.pow(2, attempt) * 1000: the wait, in ms, after failed attempt `attempt`.
BackoffDelay(attempt) == (2 ^ attempt) * 1000

\* The retry count a downloadAsset call of the job receives.
Retries(j) == IF j.entry = "downloadAsset" THEN j.retries ELSE HardCodedRetries

DownloadResult(asset, success, localPath, error) ==
    [asset |-> asset, success |-> success, localPath |-> localPath, error |-> error]

\* A downloadAsset call that has not been made yet.
IdleTask(asset) ==
    [ pc |-> "idle", attempt |-> 0, fetches |-> 0, heads |-> 0, written |-> 0,
      waits |-> << >>, lastOutcome |-> "none",
      result |-> DownloadResult(asset, FALSE, << >>, "pending") ]

\* downloadAsset with a loop that tests its bound after the first pass.
Launched_TestsAfterPass(t, retries) == [t EXCEPT !.pc = "running", !.attempt = 1]

\* downloadAsset(asset, retries) up to its first await: the loop is entered
\* when 1 <= retries, else the statement after the loop returns.
Launched(t, retries) ==
    IF 1 <= retries
    THEN [t EXCEPT !.pc = "running", !.attempt = 1]
    ELSE [t EXCEPT !.pc = "done",
                   !.result = DownloadResult(t.result.asset, FALSE, << >>,
                                             "Unexpected error in retry loop")]

\* One attempt that rethrows its error after the last retry.
AttemptOf_Rethrow(t, retries, outcome) ==
    LET asset == t.result.asset
    IN  IF Downloader_isStream(asset)
        THEN [t EXCEPT !.pc = "done", !.heads = @ + 1, !.lastOutcome = outcome,
                       !.result = DownloadResult(asset, TRUE, asset.filepath, "none")]
        ELSE IF outcome = "ok"
        THEN [t EXCEPT !.pc = "done", !.fetches = @ + 1, !.written = @ + 1,
                       !.lastOutcome = outcome,
                       !.result = DownloadResult(asset, TRUE, LocalPath(asset), "none")]
        ELSE IF t.attempt = retries
        THEN [t EXCEPT !.pc = "thrown", !.fetches = @ + 1, !.lastOutcome = outcome]
        ELSE [t EXCEPT !.pc = "backoff", !.fetches = @ + 1, !.lastOutcome = outcome,
                       !.waits = Append(@, BackoffDelay(t.attempt))]

\* One attempt that retries without the attempt === retries test.
AttemptOf_NoBound(t, retries, outcome) ==
    LET asset == t.result.asset
    IN  IF Downloader_isStream(asset)
        THEN [t EXCEPT !.pc = "done", !.heads = @ + 1, !.lastOutcome = outcome,
                       !.result = DownloadResult(asset, TRUE, asset.filepath, "none")]
        ELSE IF outcome = "ok"
        THEN [t EXCEPT !.pc = "done", !.fetches = @ + 1, !.written = @ + 1,
                       !.lastOutcome = outcome,
                       !.result = DownloadResult(asset, TRUE, LocalPath(asset), "none")]
        ELSE IF t.attempt > retries
        THEN [t EXCEPT !.pc = "done", !.fetches = @ + 1, !.lastOutcome = outcome,
                       !.result = DownloadResult(asset, FALSE, << >>, ErrorMessage(outcome))]
        ELSE [t EXCEPT !.pc = "backoff", !.fetches = @ + 1, !.lastOutcome = outcome,
                       !.waits = Append(@, BackoffDelay(t.attempt))]

\* One attempt in which a failed stream probe is an error like any other.
AttemptOf_ProbeFails(t, retries, outcome) ==
    LET asset == t.result.asset
    IN  IF Downloader_isStream(asset) /\ outcome = "ok"
        THEN [t EXCEPT !.pc = "done", !.heads = @ + 1, !.lastOutcome = outcome,
                       !.result = DownloadResult(asset, TRUE, asset.filepath, "none")]
        ELSE IF ~Downloader_isStream(asset) /\ outcome = "ok"
        THEN [t EXCEPT !.pc = "done", !.fetches = @ + 1, !.written = @ + 1,
                       !.lastOutcome = outcome,
                       !.result = DownloadResult(asset, TRUE, LocalPath(asset), "none")]
        ELSE IF t.attempt = retries
        THEN [t EXCEPT !.pc = "done", !.fetches = @ + 1, !.lastOutcome = outcome,
                       !.result = DownloadResult(asset, FALSE, << >>, ErrorMessage(outcome))]
        ELSE [t EXCEPT !.pc = "backoff", !.fetches = @ + 1, !.lastOutcome = outcome,
                       !.waits = Append(@, BackoffDelay(t.attempt))]

\* One pass through the body of downloadAsset's loop at attempt t.attempt.
\* Stream: HEAD probe, whose failure is only logged; the original location
\* is returned.  Otherwise: GET, write the file, return the local path; an
\* error is returned as data after the last attempt and waited out before.
AttemptOf(t, retries, outcome) ==
    LET asset == t.result.asset
    IN  IF Downloader_isStream(asset)
        THEN [t EXCEPT !.pc = "done", !.heads = @ + 1, !.lastOutcome = outcome,
                       !.result = DownloadResult(asset, TRUE, asset.filepath, "none")]
        ELSE IF outcome = "ok"
        THEN [t EXCEPT !.pc = "done", !.fetches = @ + 1, !.written = @ + 1,
                       !.lastOutcome = outcome,
                       !.result = DownloadResult(asset, TRUE, LocalPath(asset), "none")]
        ELSE IF t.attempt = retries
        THEN [t EXCEPT !.pc = "done", !.fetches = @ + 1, !.lastOutcome = outcome,
                       !.result = DownloadResult(asset, FALSE, << >>, ErrorMessage(outcome))]
        ELSE [t EXCEPT !.pc = "backoff", !.fetches = @ + 1, !.lastOutcome = outcome,
                       !.waits = Append(@, BackoffDelay(t.attempt))]

NumDl == Len(job.assets)
Sequential == job.entry \in {"downloadAsset", "downloadAllAssets", "initialize"}
Parallel == job.entry = "downloadAllAssetsParallel"

\* The batch allAssets.slice(i, i + concurrency) with i = results.length.
Batch == { k \in 1..NumDl : Len(results) < k /\ k <= Len(results) + job.concurrency }

\* Every asset of the manifest launched at once.
BatchAll == { k \in 1..NumDl : Len(results) < k }

Jobs ==
    { [entry |-> "downloadAsset", assets |-> << a >>, retries |-> r,
       maxRetries |-> 0, concurrency |-> 0] : a \in Asset, r \in -1..MaxRetries }
    \cup { [entry |-> "downloadAllAssets", assets |-> as, retries |-> 0,
            maxRetries |-> 0, concurrency |-> 0] : as \in SeqsUpTo(Asset, MaxDlAssets) }
    \cup { [entry |-> "initialize", assets |-> as, retries |-> 0,
            maxRetries |-> m, concurrency |-> 0] :
              as \in SeqsUpTo(Asset, MaxDlAssets), m \in 1..MaxRetries }
    \cup { [entry |-> "downloadAllAssetsParallel", assets |-> as, retries |-> 0,
            maxRetries |-> 0, concurrency |-> c] :
              as \in SeqsUpTo(Asset, MaxDlAssets), c \in 1..MaxConcurrency }

\* The cycler is not running during a download.
CyclerIdle ==
    /\ currentPlaylist = [assets |-> << >>, startDate |-> [kind |-> "null", t |-> 0],
                          endDate |-> [kind |-> "null", t |-> 0]]
    /\ currentAssetIndex = 0
    /\ cycleTimer = NULL
    /\ dateCheckTimer = NULL
    /\ timeouts = << >>
    /\ intervals = {}
    /\ now = 0
    /\ calls = << >>
    /\ lastOp = Op("new", "-", "void")
    /\ dateStatus = << >>
    /\ stopped = FALSE

DownloadInit ==
    /\ CyclerIdle
    /\ OrchIdle
    /\ FnIdle
    /\ AppIdle
    /\ job \in Jobs
    /\ tasks = [k \in 1..Len(job.assets) |-> IdleTask(job.assets[k])]
    /\ results = << >>
    /\ dlStatus = "running"

\* The sequential loop (or a direct caller) calls downloadAsset for the next asset.
StartSequential ==
    /\ Sequential
    /\ dlStatus = "running"
    /\ Len(results) < NumDl
    /\ tasks[Len(results) + 1].pc = "idle"
    /\ tasks' = [tasks EXCEPT ![Len(results) + 1] = Launched(@, Retries(job))]
    /\ UNCHANGED << vars, orchVars, fnVars, appVars, job, results, dlStatus >>

\* batch.map launching every asset of the manifest.
StartBatch_All ==
    /\ Parallel
    /\ dlStatus = "running"
    /\ BatchAll # {}
    /\ \A k \in BatchAll : tasks[k].pc = "idle"
    /\ tasks' = [k \in 1..NumDl |->
                   IF k \in BatchAll THEN Launched(tasks[k], Retries(job)) ELSE tasks[k]]
    /\ UNCHANGED << vars, orchVars, fnVars, appVars, job, results, dlStatus >>

\* batch.map(asset => this.downloadAsset(asset, 3, onProgress)): every call of
\* the batch runs to its first await.
StartBatch ==
    /\ Parallel
    /\ dlStatus = "running"
    /\ Batch # {}
    /\ \A k \in Batch : tasks[k].pc = "idle"
    /\ tasks' = [k \in 1..NumDl |->
                   IF k \in Batch THEN Launched(tasks[k], Retries(job)) ELSE tasks[k]]
    /\ UNCHANGED << vars, orchVars, fnVars, appVars, job, results, dlStatus >>

\* The pending fetch of call k settles with the given outcome.
Attempt(k, outcome) ==
    /\ k \in 1..NumDl
    /\ tasks[k].pc = "running"
    /\ outcome \in (IF Downloader_isStream(job.assets[k]) THEN ProbeOutcomes ELSE Outcomes)
    /\ tasks' = [tasks EXCEPT ![k] = AttemptOf(@, Retries(job), outcome)]
    /\ UNCHANGED << vars, orchVars, fnVars, appVars, job, results, dlStatus >>

\* The backoff timer of call k fires: the loop goes to the next attempt.
BackoffElapsed(k) ==
    /\ k \in 1..NumDl
    /\ tasks[k].pc = "backoff"
    /\ tasks' = [tasks EXCEPT ![k] = [@ EXCEPT !.pc = "running", !.attempt = @ + 1]]
    /\ UNCHANGED << vars, orchVars, fnVars, appVars, job, results, dlStatus >>

\* The sequential loop giving up at the first failed result.
CollectSequential_AbortOnFailure ==
    /\ Sequential
    /\ dlStatus = "running"
    /\ Len(results) < NumDl
    /\ tasks[Len(results) + 1].pc = "done"
    /\ IF tasks[Len(results) + 1].result.success
       THEN results' = Append(results, tasks[Len(results) + 1].result) /\ dlStatus' = dlStatus
       ELSE results' = results /\ dlStatus' = "thrown"
    /\ UNCHANGED << vars, orchVars, fnVars, appVars, job, tasks >>

\* results.push(result) of the sequential loop, then the 100 ms pause after a
\* non-stream asset.  A downloadAsset call that threw would end the loop.
CollectSequential ==
    /\ Sequential
    /\ dlStatus = "running"
    /\ Len(results) < NumDl
    /\ tasks[Len(results) + 1].pc \in {"done", "thrown"}
    /\ IF tasks[Len(results) + 1].pc = "done"
       THEN results' = Append(results, tasks[Len(results) + 1].result) /\ dlStatus' = dlStatus
       ELSE results' = results /\ dlStatus' = "thrown"
    /\ UNCHANGED << vars, orchVars, fnVars, appVars, job, tasks >>

\* The results of the calls in the set B, in index order.
RECURSIVE BatchResults(_, _)
BatchResults(from, B) ==
    IF from \notin B THEN << >>
    ELSE << tasks[from].result >> \o BatchResults(from + 1, B)

\* await Promise.all(batchPromises); results.push(...batchResults)
CollectBatch ==
    /\ Parallel
    /\ dlStatus = "running"
    /\ Batch # {}
    /\ \A k \in Batch : tasks[k].pc \in {"done", "thrown"}
    /\ \E k \in Batch : tasks[k].pc # "idle"
    /\ IF \A k \in Batch : tasks[k].pc = "done"
       THEN /\ results' = results \o BatchResults(Len(results) + 1, Batch)
            /\ dlStatus' = dlStatus
       ELSE results' = results /\ dlStatus' = "thrown"
    /\ UNCHANGED << vars, orchVars, fnVars, appVars, job, tasks >>

\* The loop is over: return results.
ReturnResults ==
    /\ dlStatus = "running"
    /\ Len(results) = NumDl
    /\ dlStatus' = "returned"
    /\ UNCHANGED << vars, orchVars, fnVars, appVars, job, tasks, results >>

DownloadNext ==
    \/ StartSequential
    \/ StartBatch
    \/ \E k \in 1..MaxDlAssets, outcome \in Outcomes : Attempt(k, outcome)
    \/ \E k \in 1..MaxDlAssets : BackoffElapsed(k)
    \/ CollectSequential
    \/ CollectBatch
    \/ ReturnResults

allVars == << vars, dlVars, orchVars, fnVars, appVars >>

DownloadSpec == DownloadInit /\ [][DownloadNext]_allVars

(***************************************************************************)
(* Vocabulary of the downloader properties.                                *)
(***************************************************************************)
\* filepath ends with the part.
EndsWith(path, part) == Len(path) > 0 /\ path[Len(path)] = part

\* Stream by file type or by a location containing ".m3u8".
StreamByTypeOrContains(asset) ==
    asset.filetype = "stream" \/ (\E i \in 1..Len(asset.filepath) : asset.filepath[i] = ".m3u8")

\* Stream by file type or by a location ending with ".m3u8".
StreamByTypeOrSuffix(asset) ==
    asset.filetype = "stream" \/ EndsWith(asset.filepath, ".m3u8")

DlTasks == 1..Len(tasks)
InFlight == { k \in DlTasks : tasks[k].pc \in {"running", "backoff"} }

(***************************************************************************)
(* C13: for a non-stream asset and retry count r >= 1, downloadAsset makes *)
(* at most r fetch attempts, stops at the first successful one returning   *)
(* success, and makes exactly r attempts when all of them fail.            *)
(***************************************************************************)
C13_BoundedAttempts ==
    \A k \in DlTasks :
        (~StreamByTypeOrContains(job.assets[k]) /\ Retries(job) >= 1)
          => /\ tasks[k].fetches <= Retries(job)
             /\ tasks[k].lastOutcome = "ok"
                  => (tasks[k].pc = "done" /\ tasks[k].result.success)
             /\ (tasks[k].pc = "done" /\ tasks[k].result.success)
                  => (tasks[k].lastOutcome = "ok" /\ tasks[k].fetches = tasks[k].attempt)
             /\ (tasks[k].pc = "done" /\ ~tasks[k].result.success)
                  => tasks[k].fetches = Retries(job)

\* A direct call with retries = 2 has failed after two fetches.
C13_Witness ==
    /\ job.entry = "downloadAsset"
    /\ job.retries = 2
    /\ ~StreamByTypeOrContains(job.assets[1])
    /\ tasks[1].pc = "done"
    /\ ~tasks[1].result.success
    /\ tasks[1].fetches = 2

(***************************************************************************)
(* C14: downloadAsset never raises: a failure of the last attempt (network *)
(* error, non-2xx status, write error) is returned as a result with        *)
(* success = false and the message of that last attempt.                   *)
(***************************************************************************)
C14_FailureIsData ==
    /\ dlStatus # "thrown"
    /\ \A k \in DlTasks :
         /\ tasks[k].pc # "thrown"
         /\ (/\ ~StreamByTypeOrContains(job.assets[k])
             /\ tasks[k].pc = "done"
             /\ tasks[k].lastOutcome \in {"http", "network", "write"})
              => /\ ~tasks[k].result.success
                 /\ tasks[k].result.asset = job.assets[k]
                 /\ tasks[k].result.error =
                      (CASE tasks[k].lastOutcome = "http" -> "HTTP error! status: 404"
                         [] tasks[k].lastOutcome = "network" -> "Network request failed"
                         [] tasks[k].lastOutcome = "write" -> "ENOSPC: no space left on device")

\* A third attempt failed on the file write and the call returned that error.
C14_Witness ==
    \E k \in DlTasks :
        /\ tasks[k].pc = "done"
        /\ tasks[k].attempt = 3
        /\ tasks[k].lastOutcome = "write"
        /\ tasks[k].result.error = "ENOSPC: no space left on device"

(***************************************************************************)
(* C15: between failed attempt k and attempt k+1 downloadAsset waits 2^k   *)
(* seconds; there is no wait after the final failed attempt or a success.  *)
(***************************************************************************)
C15_ExponentialBackoff ==
    \A k \in DlTasks :
        /\ \A i \in 1..Len(tasks[k].waits) : tasks[k].waits[i] = (2 ^ i) * 1000
        /\ Len(tasks[k].waits) =
             (IF tasks[k].pc = "backoff" THEN tasks[k].attempt
              ELSE IF tasks[k].attempt >= 1 THEN tasks[k].attempt - 1
              ELSE 0)

\* A call failed three times: it waited 2 s and 4 s, and not after the last.
C15_Witness ==
    \E k \in DlTasks :
        /\ tasks[k].pc = "done"
        /\ ~tasks[k].result.success
        /\ tasks[k].fetches = 3
        /\ tasks[k].waits = << 2000, 4000 >>

(***************************************************************************)
(* C16: with maximum retry count k in the initialization configuration, an *)
(* asset whose every attempt fails is attempted exactly k times.           *)
(***************************************************************************)
C16_ConfiguredRetriesApplied ==
    \A k \in DlTasks :
        (/\ job.entry = "initialize"
         /\ ~StreamByTypeOrContains(job.assets[k])
         /\ tasks[k].pc = "done"
         /\ ~tasks[k].result.success)
          => tasks[k].fetches = job.maxRetries

(***************************************************************************)
(* C17: downloadAllAssets returns exactly one result per asset occurrence, *)
(* in manifest order, and a failed asset never aborts the batch: every     *)
(* asset after a failed one is still attempted and gets its own result.    *)
(***************************************************************************)
C17_OneResultPerAsset ==
    (job.entry \in {"downloadAllAssets", "initialize"})
      => /\ dlStatus # "thrown"
         /\ Len(results) <= NumDl
         /\ \A i \in 1..Len(results) :
              /\ results[i].asset = job.assets[i]
              /\ results[i] = tasks[i].result
              /\ tasks[i].fetches + tasks[i].heads >= 1
         /\ dlStatus = "returned" => Len(results) = NumDl
         /\ dlStatus = "running" => ENABLED DownloadNext

\* Three assets, the first failed, and all three have their result.
C17_Witness ==
    /\ job.entry = "downloadAllAssets"
    /\ dlStatus = "returned"
    /\ Len(results) = 3
    /\ ~results[1].success
    /\ results[2].success
    /\ results[2].asset # results[1].asset
    /\ ~results[3].success

(***************************************************************************)
(* C18: for every stream asset, whatever the outcome of the header-only    *)
(* probe, the result has success = true and localPath equal to the source  *)
(* location; the stream is never retried and no file is written.           *)
(***************************************************************************)
C18_StreamAlwaysSucceeds ==
    \A k \in DlTasks :
        (StreamByTypeOrContains(job.assets[k]) /\ Retries(job) >= 1)
          => /\ tasks[k].pc \in {"idle", "running", "done"}
             /\ tasks[k].fetches = 0
             /\ tasks[k].written = 0
             /\ tasks[k].waits = << >>
             /\ tasks[k].pc = "done"
                  => /\ tasks[k].result.success
                     /\ tasks[k].result.localPath = job.assets[k].filepath
                     /\ tasks[k].heads = 1
                     /\ tasks[k].attempt = 1

\* The probe of a stream answered with a non-2xx status.
C18_Witness ==
    \E k \in DlTasks :
        /\ job.assets[k].filetype = "stream"
        /\ tasks[k].pc = "done"
        /\ tasks[k].lastOutcome = "http"
        /\ tasks[k].result.success

(***************************************************************************)
(* C19 (as stated): an asset is classified as a stream if and only if its  *)
(* file type is `stream` or its source location ends with `.m3u8`, in the  *)
(* fetcher, the compiler and the statistics alike.                         *)
(***************************************************************************)
C19_StreamIffTypeOrSuffix ==
    /\ \A k \in DlTasks :
         /\ (tasks[k].pc = "done" /\ Retries(job) >= 1)
              => ((tasks[k].heads = 1) <=> StreamByTypeOrSuffix(job.assets[k]))
    /\ \A i \in 1..Len(results) :
         results[i].success
           => (Compiler_isStream(results[i].asset) <=> StreamByTypeOrSuffix(results[i].asset))
    /\ StreamsKept(results) =
         Cardinality({ i \in 1..Len(results) :
                         results[i].success /\ StreamByTypeOrSuffix(results[i].asset) })

(***************************************************************************)
(* C19 (amended): an asset is classified as a stream if and only if its    *)
(* file type is `stream` or its source location contains `.m3u8`, in the   *)
(* fetcher (which probes it instead of downloading it), the compiler and   *)
(* the statistics alike.                                                   *)
(***************************************************************************)
C19_StreamIffTypeOrContains ==
    /\ \A k \in DlTasks :
         /\ (tasks[k].pc = "done" /\ Retries(job) >= 1)
              => /\ (tasks[k].heads = 1) <=> StreamByTypeOrContains(job.assets[k])
                 /\ (tasks[k].fetches >= 1) <=> ~StreamByTypeOrContains(job.assets[k])
    /\ \A i \in 1..Len(results) :
         results[i].success
           => (Compiler_isStream(results[i].asset) <=> StreamByTypeOrContains(results[i].asset))
    /\ StreamsKept(results) =
         Cardinality({ i \in 1..Len(results) :
                         results[i].success /\ StreamByTypeOrContains(results[i].asset) })

\* A video whose location has ".m3u8" before a query string was probed, not
\* downloaded, and is counted as a stream.
C19_Witness ==
    /\ Len(results) >= 1
    /\ results[1].asset.filetype = "video"
    /\ ~EndsWith(results[1].asset.filepath, ".m3u8")
    /\ tasks[1].heads = 1
    /\ tasks[1].fetches = 0
    /\ StreamsKept(results) >= 1

(***************************************************************************)
(* C20: in bounded-concurrency mode with level N at most N asset fetches   *)
(* are in flight, no fetch of batch b+1 starts before every fetch of batch *)
(* b has completed, and the result list is in input order with exactly one *)
(* result per asset.                                                       *)
(***************************************************************************)
C20_BoundedConcurrency ==
    Parallel
      => /\ Cardinality(InFlight) <= job.concurrency
         /\ \A k \in DlTasks : \A j \in DlTasks :
              (tasks[k].pc # "idle" /\ (j - 1) \div job.concurrency < (k - 1) \div job.concurrency)
                => tasks[j].pc = "done"
         /\ Len(results) <= NumDl
         /\ \A i \in 1..Len(results) :
              results[i].asset = job.assets[i] /\ results[i] = tasks[i].result
         /\ dlStatus = "returned" => Len(results) = NumDl

\* With N = 2 and three assets the third fetch is in flight after the first
\* batch of two has completed.
C20_Witness ==
    /\ Parallel
    /\ job.concurrency = 2
    /\ NumDl = 3
    /\ Len(results) = 2
    /\ tasks[3].pc = "running"

(***************************************************************************)
(* The manifest client, the playlist compiler and the initializer.         *)
(*                                                                         *)
(* One run of initializeDigitalSignage: the stages of initialize() follow  *)
(* one another at its awaits.  The manifest endpoint's answer is fixed     *)
(* when the run starts; the outcome of clearing the directory, the device  *)
(* name and the outcome of each asset's download are chosen freely at      *)
(* their stage.  downloadAllAssets is summarised by its results array:     *)
(* one result per listed asset, a stream's result always successful.       *)
(***************************************************************************)
MaxPlaylists == 2       \* most playlists in a manifest
MaxListings == 3        \* most assets listed in a manifest, over all its playlists

\* A JSON value of a manifest field: a string (the sequence of its
\* characters), a number, a boolean, or undefined for a missing field.
Str(s) == [t |-> "string", s |-> s, n |-> 0, b |-> FALSE]
Num(n) == [t |-> "number", s |-> << >>, n |-> n, b |-> FALSE]
Bool(b) == [t |-> "boolean", s |-> << >>, n |-> 0, b |-> b]
Undefined == [t |-> "undefined", s |-> << >>, n |-> 0, b |-> FALSE]

\* The truthiness of a value, as && and find() test it.
ToBoolean(v) ==
    CASE v.t = "string" -> v.s # << >>
      [] v.t = "number" -> v.n # 0
      [] v.t = "boolean" -> v.b
      [] OTHER -> FALSE

\* The decimal digits; the value of the digit at position i is i - 1.
Digits == << "0", "1", "2", "3", "4", "5", "6", "7", "8", "9" >>
IsDigit(c) == \E i \in 1..Len(Digits) : Digits[i] = c
DigitValue(c) == (CHOOSE i \in 1..Len(Digits) : Digits[i] = c) - 1

\* The number the leading digits of s denote, after the digits read so far
\* (acc); reading stops at the first character that is no digit.
RECURSIVE ParseDigits(_, _)
ParseDigits(s, acc) ==
    IF s = << >> \/ ~IsDigit(Head(s))
    THEN acc
    ELSE ParseDigits(Tail(s), acc * 10 + DigitValue(Head(s)))

\* parseInt(v, 10) of a string without sign or leading blanks, or of a
\* natural number (its decimal form parses back to itself): NaN when the
\* text does not start with a digit.
parseInt(v) ==
    CASE v.t = "string" ->
            IF v.s # << >> /\ IsDigit(Head(v.s)) THEN ParseDigits(v.s, 0) ELSE NaN
      [] v.t = "number" -> v.n
      [] OTHER -> NaN

\* The assets a manifest may list.  A and B are as the schema describes
\* them; C has an ordering key and a duration that are no numbers; D has
\* the id of A and a duration sent as a number; E has an empty name and F
\* no duration.
ManifestAsset ==
    { [id |-> "a", name |-> "A", filetype |-> "image",
       filepath |-> << "http://h/", "a", ".png" >>,
       playing_order |-> Str(<< "2" >>), time |-> Str(<< "5" >>)],
      [id |-> "b", name |-> "B", filetype |-> "stream",
       filepath |-> << "http://h/", "live", ".m3u8" >>,
       playing_order |-> Str(<< "1" >>), time |-> Str(<< "1", "0" >>)],
      [id |-> "c", name |-> "C", filetype |-> "video",
       filepath |-> << "http://h/", "c", ".mp4" >>,
       playing_order |-> Str(<< "x" >>), time |-> Str(<< "x" >>)],
      [id |-> "a", name |-> "D", filetype |-> "video",
       filepath |-> << "http://h/", "d", ".mp4" >>,
       playing_order |-> Str(<< "1" >>), time |-> Num(5)],
      [id |-> "e", name |-> "", filetype |-> "image",
       filepath |-> << "http://h/", "e", ".png" >>,
       playing_order |-> Str(<< "3" >>), time |-> Str(<< "5" >>)],
      [id |-> "f", name |-> "F", filetype |-> "image",
       filepath |-> << "http://h/", "f", ".png" >>,
       playing_order |-> Str(<< "3" >>), time |-> Undefined] }

\* The is_default values a manifest may carry: the booleans and a string.
DefaultFlags == { Bool(TRUE), Bool(FALSE), Str(<< "y", "e", "s" >>) }

\* The date fields of a playlist without a date window.
NoDate == [kind |-> "null", t |-> 0]

\* A playlist of the manifest; its id and name are given by its position.
Playlist(flag, as) ==
    [id |-> "", name |-> "", is_default |-> flag, assets |-> as,
     startdate |-> NoDate, enddate |-> NoDate]

\* The playlist sequences of at most k playlists listing at most n assets.
RECURSIVE PlaylistSeqs(_, _)
PlaylistSeqs(k, n) ==
    IF k = 0
    THEN { << >> }
    ELSE { << >> } \cup
         UNION { { << Playlist(flag, as) >> \o rest :
                     rest \in PlaylistSeqs(k - 1, n - Len(as)) } :
                   flag \in DefaultFlags, as \in SeqsUpTo(ManifestAsset, n) }

PlaylistIds == << "p1", "p2", "p3", "p4" >>

\* The playlists of a manifest, named by their position.
Numbered(ps) ==
    [i \in 1..Len(ps) |-> [ps[i] EXCEPT !.id = PlaylistIds[i], !.name = PlaylistIds[i]]]

\* The documents the endpoint may send: every playlist sequence with the
\* is_restarting flag, and one document without it.
ApiResponse ==
    { [functions |-> [is_restarting |-> Bool(FALSE)], playlists |-> Numbered(ps)] :
        ps \in PlaylistSeqs(MaxPlaylists, MaxListings) }
    \cup { [functions |-> [is_restarting |-> Undefined], playlists |-> << >>] }

\* isValidApiResponse(data), for a document that is an object whose
\* playlists and assets are arrays.
isValidApiResponse(data) ==
    /\ data.functions.is_restarting.t = "boolean"
    /\ \A i \in 1..Len(data.playlists) :
         LET playlist == data.playlists[i]
         IN  /\ playlist.id # ""
             /\ playlist.name # ""
             /\ playlist.is_default.t = "boolean"
             /\ \A j \in 1..Len(playlist.assets) :
                  LET asset == playlist.assets[j]
                  IN  /\ asset.id # ""
                      /\ asset.name # ""
                      /\ asset.filepath # << >>
                      /\ asset.filetype # ""
                      /\ ToBoolean(asset.playing_order)
                      /\ ToBoolean(asset.time)

\* response.statusText of a status.
StatusText(status) ==
    CASE status = 200 -> "OK"
      [] status = 404 -> "Not Found"
      [] status = 500 -> "Internal Server Error"
      [] OTHER -> ""

\* response.ok
ResponseOk(status) == 200 <= status /\ status <= 299

\* What fetch(apiURL) can meet: a TypeError whose message names fetch or
\* does not, a status outside 2xx, a 2xx body that is no JSON, a 2xx body
\* holding a document.  A message is the sequence of its parts.
Responses ==
    { [kind |-> "network", status |-> 0, message |-> m, data |-> << >>] :
        m \in { << "fetch", " failed" >>, << "Network request failed" >> } }
    \cup { [kind |-> "http", status |-> s, message |-> << >>, data |-> << >>] :
             s \in {404, 500} }
    \cup { [kind |-> "json", status |-> 200,
            message |-> << "Unexpected token < in JSON at position 0" >>,
            data |-> << >>] }
    \cup { [kind |-> "data", status |-> 200, message |-> << >>, data |-> << d >>] :
             d \in ApiResponse }

\* getData(apiURL) when the endpoint answers r: the document it returns, or
\* the message of the error it throws.
getData(r) ==
    IF r.kind = "network"
    THEN [ok |-> FALSE, data |-> << >>,
          error |-> IF Includes(r.message, "fetch")
                    THEN << "Network error: Unable to fetch data from ", "apiURL" >>
                    ELSE r.message]
    ELSE IF ~ResponseOk(r.status)
    THEN [ok |-> FALSE, data |-> << >>,
          error |-> << "HTTP error! status: ", ToString(r.status), " - ",
                       StatusText(r.status) >>]
    ELSE IF r.kind = "json"
    THEN [ok |-> FALSE, data |-> << >>, error |-> r.message]
    ELSE IF ~isValidApiResponse(r.data[1])
    THEN [ok |-> FALSE, data |-> << >>, error |-> << "Invalid API response format" >>]
    ELSE [ok |-> TRUE, data |-> r.data, error |-> << >>]

\* The comparator a.playing_order - b.playing_order as sort() reads it: a
\* NaN difference counts as 0.
ByPlayingOrder(a, b) ==
    IF a.playing_order = NaN \/ b.playing_order = NaN
    THEN 0
    ELSE a.playing_order - b.playing_order

\* Insertion that passes elements of equal key too.
RECURSIVE InsertSorted_PassEqual(_, _)
InsertSorted_PassEqual(s, x) ==
    IF s # << >> /\ ByPlayingOrder(x, s[Len(s)]) <= 0
    THEN Append(InsertSorted_PassEqual(SubSeq(s, 1, Len(s) - 1), x), s[Len(s)])
    ELSE Append(s, x)

\* x inserted into the sorted sequence s: x passes the elements it compares
\* below, from the right, and stops at the first other element.
RECURSIVE InsertSorted(_, _)
InsertSorted(s, x) ==
    IF s # << >> /\ ByPlayingOrder(x, s[Len(s)]) < 0
    THEN Append(InsertSorted(SubSeq(s, 1, Len(s) - 1), x), s[Len(s)])
    ELSE Append(s, x)

\* Array.prototype.sort with ByPlayingOrder: a stable sort.  Where a NaN
\* key makes the comparator inconsistent the language leaves the order to
\* the engine; this is the order an insertion sort gives.
RECURSIVE SortByPlayingOrder(_)
SortByPlayingOrder(s) ==
    IF s = << >>
    THEN << >>
    ELSE InsertSorted(SortByPlayingOrder(SubSeq(s, 1, Len(s) - 1)), s[Len(s)])

\* results.find((r) => r.asset.id === id && r.success): the index of the
\* first such result, 0 when there is none.
FindResult(res, id) ==
    IF \E i \in 1..Len(res) : res[i].asset.id = id /\ res[i].success
    THEN CHOOSE i \in 1..Len(res) :
           /\ res[i].asset.id = id /\ res[i].success
           /\ \A k \in 1..(i - 1) : ~(res[k].asset.id = id /\ res[k].success)
    ELSE 0

\* The WebviewAsset built from an asset and the result found for it.
ToWebviewAsset(asset, result) ==
    [id |-> asset.id, name |-> asset.name, filetype |-> asset.filetype,
     playing_order |-> parseInt(asset.playing_order),
     displayTime |-> parseInt(asset.time),
     displayPath |-> IF Compiler_isStream(asset) THEN asset.filepath ELSE result.localPath,
     isStream |-> Compiler_isStream(asset),
     originalPath |-> asset.filepath]

\* playlist.assets.map(...).filter(non-null): the assets a result is found
\* for, in the order of the playlist.
RECURSIVE ResolveAssets(_, _)
ResolveAssets(as, res) ==
    IF as = << >>
    THEN << >>
    ELSE (IF FindResult(res, Head(as).id) = 0
          THEN << >>
          ELSE << ToWebviewAsset(Head(as), res[FindResult(res, Head(as).id)]) >>)
         \o ResolveAssets(Tail(as), res)

\* x + y of JavaScript numbers that are naturals or NaN.
JsAdd(x, y) == IF x = NaN \/ y = NaN THEN NaN ELSE x + y

\* as.reduce((sum, asset) => sum + asset.displayTime, 0)
RECURSIVE TotalDuration(_)
TotalDuration(as) ==
    IF as = << >>
    THEN 0
    ELSE JsAdd(TotalDuration(SubSeq(as, 1, Len(as) - 1)), as[Len(as)].displayTime)

\* The cycle one playlist is mapped to.
ToPlaylistCycle(playlist, res) ==
    LET playlistAssets == SortByPlayingOrder(ResolveAssets(playlist.assets, res))
    IN  [playlistId |-> playlist.id, playlistName |-> playlist.name,
         assets |-> playlistAssets,
         totalCycleDuration |-> TotalDuration(playlistAssets),
         isDefault |-> playlist.is_default,
         startDate |-> playlist.startdate, endDate |-> playlist.enddate]

HasAssets(cycle) == Len(cycle.assets) > 0

\* preparePlaylistsForCycling(apiResponse, results)
preparePlaylistsForCycling(api, res) ==
    SelectSeq([i \in 1..Len(api.playlists) |-> ToPlaylistCycle(api.playlists[i], res)],
              HasAssets)

\* playlistCycles.find((p) => p.isDefault): << >> when there is none.
FindDefault(cycles) ==
    IF \E i \in 1..Len(cycles) : ToBoolean(cycles[i].isDefault)
    THEN << cycles[CHOOSE i \in 1..Len(cycles) :
                     /\ ToBoolean(cycles[i].isDefault)
                     /\ \A k \in 1..(i - 1) : ~ToBoolean(cycles[k].isDefault)] >>
    ELSE << >>

\* getDefaultPlaylist(playlistCycles): << >> is null.
getDefaultPlaylist(cycles) ==
    IF FindDefault(cycles) # << >>
    THEN FindDefault(cycles)
    ELSE IF cycles # << >> THEN << cycles[1] >> ELSE << >>

\* The statistics of a run that produced no result.
NoStats ==
    [totalAssets |-> 0, successfulDownloads |-> 0, failedDownloads |-> 0,
     streamsKept |-> 0, totalPlaylists |-> 0]

\* The result { success: false, error }; its other fields are absent.
Failure(error) ==
    [success |-> FALSE, error |-> error, deviceName |-> "", playlistCycles |-> << >>,
     defaultPlaylist |-> << >>, stats |-> NoStats]

\* prepareFinalResult(deviceName, apiResponse, downloadResults, playlistCycles);
\* the result also carries apiResponse and downloadResults as they are.
prepareFinalResult(name, res, cycles) ==
    [success |-> TRUE, error |-> << >>, deviceName |-> name, playlistCycles |-> cycles,
     defaultPlaylist |-> FindDefault(cycles),
     stats |-> [totalAssets |-> Len(res),
                successfulDownloads |-> Cardinality({ i \in 1..Len(res) : res[i].success }),
                failedDownloads |-> Cardinality({ i \in 1..Len(res) : ~res[i].success }),
                streamsKept |-> StreamsKept(res),
                totalPlaylists |-> Len(cycles)]]

\* A validation that looks at the success flag only.
validateResult_SuccessOnly(result) == result.success

\* validateResult(result)
validateResult(result) ==
    /\ result.success
    /\ result.playlistCycles # << >>
    /\ getDefaultPlaylist(result.playlistCycles) # << >>
    /\ Len(getDefaultPlaylist(result.playlistCycles)[1].assets) > 0

\* apiResponse.playlists.flatMap((playlist) => playlist.assets)
RECURSIVE AllAssets(_)
AllAssets(ps) == IF ps = << >> THEN << >> ELSE Head(ps).assets \o AllAssets(Tail(ps))

\* The results array of downloadAllAssets when the download of asset i
\* succeeds iff ok[i]: one result per listed asset, in order.
ResultsOf(all, ok) ==
    [i \in 1..Len(all) |->
        IF Downloader_isStream(all[i])
        THEN DownloadResult(all[i], TRUE, all[i].filepath, "none")
        ELSE IF ok[i]
        THEN DownloadResult(all[i], TRUE, LocalPath(all[i]), "none")
        ELSE DownloadResult(all[i], FALSE, << >>, ErrorMessage("http"))]

Succeeded(r) == r.success

\* What DeviceInfo.getDeviceName() may do: resolve with a name, resolve with
\* the empty string, or reject.
DeviceProbes == { "tv", "", "throws" }

\* getDeviceName(): the error of the probe is caught and the name stays "";
\* an empty name is returned as null ("").
getDeviceName(probe) == IF probe = "throws" THEN "" ELSE probe

\* The cycler and the downloader are idle during a run of the initializer;
\* the run uses the default enableProgressTracking, which the app passes
\* too, and finds the assets directory empty or missing.
OrchInit ==
    /\ CyclerIdle
    /\ DlIdle
    /\ FnIdle
    /\ AppIdle
    /\ config \in [clearAssetsOnStart : BOOLEAN, enableProgressTracking : {TRUE}]
    /\ device \in DeviceProbes
    /\ entries = 0
    /\ response \in Responses
    /\ pc = "start"
    /\ deviceName = ""
    /\ apiResponse = << >>
    /\ downloadResults = << >>
    /\ webviewManifest = << >>
    /\ playlistCycles = << >>
    /\ initResult = << >>
    /\ returned = << >>
    /\ stages = << >>
    /\ notifications = << >>

\* The most entries the assets directory holds when it is cleared.
MaxEntries == 2

\* One call of onProgress: the stage and the progress value, kept as the
\* fraction num / den the code computes.
Progress(stage, num, den) == [stage |-> stage, num |-> num, den |-> den]

\* checkCompletion's notifications for a directory of total entries:
\* progress = (completed / total) * 100 after each removal.
RECURSIVE ClearingProgress(_, _)
ClearingProgress(completed, total) ==
    IF completed = 0
    THEN << >>
    ELSE Append(ClearingProgress(completed - 1, total),
                Progress("clearing", completed * 100, total))

\* assetProgressCallback, called by downloadAsset when an attempt starts and
\* when the download completes or fails: one start and the completion for a
\* success, three starts and the failure for a download that used its three
\* attempts.  Every call passes the same stage and value.
CallbacksOf(result) == IF result.success THEN 2 ELSE 4

RECURSIVE DownloadProgress(_)
DownloadProgress(rs) ==
    IF rs = << >>
    THEN << >>
    ELSE [k \in 1..CallbacksOf(Head(rs)) |-> Progress("downloading", 50, 1)]
         \o DownloadProgress(Tail(rs))

\* initialize's catch block: after the notifications the failed stage had
\* sent, complete is notified with progress 0 and the run ends with
\* { success: false, error }.
Caught(error, sent) ==
    /\ initResult' = << Failure(error) >>
    /\ notifications' = notifications \o sent \o << Progress("complete", 0, 1) >>
    /\ pc' = "initialized"

\* Stage 1, clearAssetsDirectory: the promise resolves, at once for a
\* missing or empty directory and after one notification for each entry
\* otherwise, or rejects with the error of readdir.
clearAssetsDirectory ==
    /\ pc = "start"
    /\ config.clearAssetsOnStart
    /\ stages' = Append(stages, "clearing")
    /\ \/ /\ notifications' = notifications \o << Progress("clearing", 0, 1) >>
                                \o ClearingProgress(entries, entries)
          /\ pc' = "cleared"
          /\ UNCHANGED initResult
       \/ Caught(<< "EACCES: permission denied, scandir" >>,
                 << Progress("clearing", 0, 1) >>)
    /\ UNCHANGED << vars, dlVars, fnVars, appVars, config, device, entries, response, deviceName, apiResponse,
                    downloadResults, webviewManifest, playlistCycles, returned >>

\* A device stage that lets the error of the probe end the run.
getDeviceInformation_ProbeFatal ==
    /\ pc = "cleared" \/ (pc = "start" /\ ~config.clearAssetsOnStart)
    /\ stages' = Append(stages, "device-info")
    /\ IF device = "throws"
       THEN /\ Caught(<< "Device name unavailable" >>,
                      << Progress("device-info", 0, 1) >>)
            /\ UNCHANGED deviceName
       ELSE /\ deviceName' = device
            /\ notifications' = notifications \o << Progress("device-info", 0, 1),
                                                     Progress("device-info", 100, 1) >>
            /\ pc' = "probed"
            /\ UNCHANGED initResult
    /\ UNCHANGED << vars, dlVars, fnVars, appVars, config, device, entries, response, apiResponse, downloadResults,
                    webviewManifest, playlistCycles, returned >>

\* Stage 2, getDeviceInformation: the name getDeviceName returns, null ("")
\* when the name is empty or the probe threw.
getDeviceInformation ==
    /\ pc = "cleared" \/ (pc = "start" /\ ~config.clearAssetsOnStart)
    /\ stages' = Append(stages, "device-info")
    /\ deviceName' = getDeviceName(device)
    /\ notifications' = notifications \o << Progress("device-info", 0, 1),
                                             Progress("device-info", 100, 1) >>
    /\ pc' = "probed"
    /\ UNCHANGED << vars, dlVars, fnVars, appVars, config, device, entries, response, apiResponse, downloadResults,
                    webviewManifest, playlistCycles, initResult, returned >>

\* A manifest stage that goes on with an empty manifest when getData throws.
fetchApiData_Lenient ==
    /\ pc = "probed"
    /\ stages' = Append(stages, "api-fetch")
    /\ apiResponse' = IF getData(response).ok
                      THEN getData(response).data
                      ELSE << [functions |-> [is_restarting |-> Bool(FALSE)],
                               playlists |-> << >>] >>
    /\ notifications' = notifications \o << Progress("api-fetch", 0, 1),
                                             Progress("api-fetch", 100, 1) >>
    /\ pc' = "fetched"
    /\ UNCHANGED << vars, dlVars, fnVars, appVars, config, device, entries, response, deviceName, downloadResults,
                    webviewManifest, playlistCycles, initResult, returned >>

\* Stage 3, fetchApiData: the manifest getData returns, or its error
\* rethrown with a prefix.
fetchApiData ==
    /\ pc = "probed"
    /\ stages' = Append(stages, "api-fetch")
    /\ IF getData(response).ok
       THEN /\ apiResponse' = getData(response).data
            /\ notifications' = notifications \o << Progress("api-fetch", 0, 1),
                                                     Progress("api-fetch", 100, 1) >>
            /\ pc' = "fetched"
            /\ UNCHANGED initResult
       ELSE /\ Caught(<< "API fetch failed: " >> \o getData(response).error,
                      << Progress("api-fetch", 0, 1) >>)
            /\ UNCHANGED apiResponse
    /\ UNCHANGED << vars, dlVars, fnVars, appVars, config, device, entries, response, deviceName, downloadResults,
                    webviewManifest, playlistCycles, returned >>

\* Stage 4, downloadAssets up to the return of downloadAllAssets.
downloadAllAssets ==
    /\ pc = "fetched"
    /\ stages' = Append(stages, "downloading")
    /\ \E ok \in [1..Len(AllAssets(apiResponse[1].playlists)) -> BOOLEAN] :
         downloadResults' = ResultsOf(AllAssets(apiResponse[1].playlists), ok)
    /\ notifications' =
         notifications \o << Progress("downloading", 0, 1) >>
         \o (IF config.enableProgressTracking
             THEN DownloadProgress(downloadResults')
             ELSE << >>)
    /\ pc' = "downloaded"
    /\ UNCHANGED << vars, dlVars, fnVars, appVars, config, device, entries, response, deviceName, apiResponse,
                    webviewManifest, playlistCycles, initResult, returned >>

\* createWebviewManifest dropping the failed results from the array it is given.
createWebviewManifest_DropsFailed ==
    /\ pc = "downloaded"
    /\ stages' = Append(stages, "compile")
    /\ webviewManifest' =
         << [playlists |-> preparePlaylistsForCycling(apiResponse[1], downloadResults),
             defaultPlaylist |->
               FindDefault(preparePlaylistsForCycling(apiResponse[1], downloadResults)),
             totalAssets |-> Len(downloadResults)] >>
    /\ downloadResults' = SelectSeq(downloadResults, Succeeded)
    /\ pc' = "manifestWritten"
    /\ UNCHANGED << vars, dlVars, fnVars, appVars, config, device, entries, response, deviceName, apiResponse,
                    playlistCycles, initResult, returned, notifications >>

\* createWebviewManifest(apiResponse, results): the cycles are compiled and
\* written to webview-manifest.json; an error of writeFileSync is rethrown
\* by downloadAssets, and by downloadAndProcessAssets with a prefix.
createWebviewManifest ==
    /\ pc = "downloaded"
    /\ stages' = Append(stages, "compile")
    /\ \E written \in BOOLEAN :
         IF written
         THEN /\ webviewManifest' =
                   << [playlists |->
                         preparePlaylistsForCycling(apiResponse[1], downloadResults),
                       defaultPlaylist |->
                         FindDefault(preparePlaylistsForCycling(apiResponse[1],
                                                                downloadResults)),
                       totalAssets |-> Len(downloadResults)] >>
              /\ pc' = "manifestWritten"
              /\ UNCHANGED << initResult, notifications >>
         ELSE /\ Caught(<< "Asset download failed: ", "ENOSPC: no space left on device" >>,
                        << >>)
              /\ UNCHANGED webviewManifest
    /\ UNCHANGED << vars, dlVars, fnVars, appVars, config, device, entries, response, deviceName, apiResponse,
                    downloadResults, playlistCycles, returned >>

\* downloadAssets from its own call of the compiler to its return, and the
\* notification downloadAndProcessAssets sends when it has returned.
downloadAssetsReturn ==
    /\ pc = "manifestWritten"
    /\ stages' = Append(stages, "compile")
    /\ playlistCycles' = preparePlaylistsForCycling(apiResponse[1], downloadResults)
    /\ notifications' = Append(notifications, Progress("downloading", 100, 1))
    /\ pc' = "compiled"
    /\ UNCHANGED << vars, dlVars, fnVars, appVars, config, device, entries, response, deviceName, apiResponse,
                    downloadResults, webviewManifest, initResult, returned >>

\* Stage 5 and the return of initialize.
initializeReturn ==
    /\ pc = "compiled"
    /\ stages' = Append(stages, "select")
    /\ initResult' = << prepareFinalResult(deviceName, downloadResults, playlistCycles) >>
    /\ notifications' = Append(notifications, Progress("complete", 100, 1))
    /\ pc' = "initialized"
    /\ UNCHANGED << vars, dlVars, fnVars, appVars, config, device, entries, response, deviceName, apiResponse,
                    downloadResults, webviewManifest, playlistCycles, returned >>

\* initializeDigitalSignage after initialize() has returned.
initializeDigitalSignage ==
    /\ pc = "initialized"
    /\ returned' = IF validateResult(initResult[1])
                   THEN initResult
                   ELSE << Failure(<< "Initialization validation failed" >>) >>
    /\ pc' = "returned"
    /\ UNCHANGED << vars, dlVars, fnVars, appVars, config, device, entries, response, deviceName, apiResponse,
                    downloadResults, webviewManifest, playlistCycles, initResult, stages,
                    notifications >>

OrchNext ==
    \/ clearAssetsDirectory
    \/ getDeviceInformation
    \/ fetchApiData
    \/ downloadAllAssets
    \/ createWebviewManifest
    \/ downloadAssetsReturn
    \/ initializeReturn
    \/ initializeDigitalSignage

OrchSpec == OrchInit /\ [][OrchNext]_allVars

(***************************************************************************)
(* Vocabulary of the compiler and initializer properties.                  *)
(***************************************************************************)
IsNumber(x) == x # NaN

\* The manifest the run accepted has n playlists.
NumPlaylists == IF apiResponse = << >> THEN 0 ELSE Len(apiResponse[1].playlists)

\* The position, in the results array, before the first asset of playlist i.
RECURSIVE Offset(_)
Offset(i) == IF i <= 1 THEN 0 ELSE Offset(i - 1) + Len(apiResponse[1].playlists[i - 1].assets)

\* The result of the download made for listing j of playlist i.
OwnResult(i, j) == downloadResults[Offset(i) + j]

\* The run has compiled its cycles.
Compiled == pc \in {"compiled", "initialized", "returned"} /\ webviewManifest # << >>

\* The numeric ordering keys of a sequence never decrease.
SortedByKey(as) ==
    \A i \in 1..Len(as), j \in 1..Len(as) :
        (i < j /\ IsNumber(as[i].playing_order) /\ IsNumber(as[j].playing_order))
            => as[i].playing_order <= as[j].playing_order

\* The sum of the display times of the first n assets (NaN if one is NaN).
RECURSIVE SumOfDisplayTimes(_, _)
SumOfDisplayTimes(as, n) ==
    IF n = 0
    THEN 0
    ELSE IF IsNumber(as[n].displayTime) /\ IsNumber(SumOfDisplayTimes(as, n - 1))
    THEN as[n].displayTime + SumOfDisplayTimes(as, n - 1)
    ELSE NaN

(***************************************************************************)
(* Properties of the playlist compiler (OrchSpec).                         *)
(***************************************************************************)

\* C21: every compiled cycle's asset sequence is sorted non-decreasing by
\* ordering key, and its totalCycleDuration is the sum of the display times
\* of its assets.
C21_SortedAndSummed ==
    \A k \in 1..Len(playlistCycles) :
        /\ SortedByKey(playlistCycles[k].assets)
        /\ playlistCycles[k].totalCycleDuration =
             SumOfDisplayTimes(playlistCycles[k].assets, Len(playlistCycles[k].assets))

\* The listings of playlist i whose own download succeeded.
OwnSuccesses(i) ==
    { j \in 1..Len(apiResponse[1].playlists[i].assets) : OwnResult(i, j).success }

HasOwnSuccess(i) == OwnSuccesses(i) # {}

\* The assets of the cycle compiled for playlist i; none if it has no cycle.
CycleAssets(i) ==
    IF \E k \in 1..Len(playlistCycles) :
          playlistCycles[k].playlistId = apiResponse[1].playlists[i].id
    THEN (CHOOSE c \in { playlistCycles[k] : k \in 1..Len(playlistCycles) } :
            c.playlistId = apiResponse[1].playlists[i].id).assets
    ELSE << >>

\* C22: no compiled cycle is without assets, and the cycles are those of
\* the playlists with at least one successfully fetched asset, one each, in
\* the order of the manifest.
C22_CyclesOfPlaylistsWithSuccess ==
    Compiled =>
        /\ \A k \in 1..Len(playlistCycles) : Len(playlistCycles[k].assets) > 0
        /\ [k \in 1..Len(playlistCycles) |-> playlistCycles[k].playlistId]
             = [k \in 1..Len(SelectSeq([i \in 1..NumPlaylists |-> i], HasOwnSuccess)) |->
                  apiResponse[1].playlists[
                      SelectSeq([i \in 1..NumPlaylists |-> i], HasOwnSuccess)[k]].id]

\* C23: the cycle of a playlist holds exactly the assets of the playlist
\* whose own download succeeded, each with the location its own result
\* records as display path.
C23_ExactlyOwnSuccesses ==
    Compiled =>
        \A i \in 1..NumPlaylists :
            \E f \in [1..Len(CycleAssets(i)) -> OwnSuccesses(i)] :
                /\ \A k, l \in 1..Len(CycleAssets(i)) : k # l => f[k] # f[l]
                /\ \A j \in OwnSuccesses(i) : \E k \in 1..Len(CycleAssets(i)) : f[k] = j
                /\ \A k \in 1..Len(CycleAssets(i)) :
                     /\ CycleAssets(i)[k].id = apiResponse[1].playlists[i].assets[f[k]].id
                     /\ CycleAssets(i)[k].originalPath
                          = apiResponse[1].playlists[i].assets[f[k]].filepath
                     /\ CycleAssets(i)[k].displayPath = OwnResult(i, f[k]).localPath

\* The assets of as with ordering key key, in their order in as.
RECURSIVE WithKey(_, _)
WithKey(as, key) ==
    IF as = << >>
    THEN << >>
    ELSE (IF Head(as).playing_order = key THEN << Head(as) >> ELSE << >>)
         \o WithKey(Tail(as), key)

\* Every ordering key of the sequence is a number.
AllKeysNumeric(as) == \A i \in 1..Len(as) : IsNumber(as[i].playing_order)

\* The playlist a compiled cycle was made from.
PlaylistOf(cycle) ==
    CHOOSE p \in { apiResponse[1].playlists[i] : i \in 1..NumPlaylists } :
        p.id = cycle.playlistId

\* C24: in a compiled cycle whose ordering keys are all numbers, the assets
\* of equal ordering key stand in the order in which the playlist lists
\* them.
C24_StableSort ==
    Compiled =>
        \A k \in 1..Len(playlistCycles) :
            AllKeysNumeric(playlistCycles[k].assets) =>
                \A i \in 1..Len(playlistCycles[k].assets) :
                    WithKey(playlistCycles[k].assets,
                            playlistCycles[k].assets[i].playing_order)
                      = WithKey(ResolveAssets(PlaylistOf(playlistCycles[k]).assets,
                                              downloadResults),
                                playlistCycles[k].assets[i].playing_order)

\* A cycle of three assets in which two assets of equal key, listed around
\* an asset of larger key, were brought together in their listed order.
C24_Witness ==
    /\ Compiled
    /\ \E k \in 1..Len(playlistCycles) :
         /\ Len(playlistCycles[k].assets) = 3
         /\ AllKeysNumeric(playlistCycles[k].assets)
         /\ playlistCycles[k].assets[1].playing_order
              = playlistCycles[k].assets[2].playing_order
         /\ playlistCycles[k].assets[1] # playlistCycles[k].assets[2]
         /\ playlistCycles[k].assets[2].playing_order
              < playlistCycles[k].assets[3].playing_order
         /\ PlaylistOf(playlistCycles[k]).assets[1].id = playlistCycles[k].assets[1].id
         /\ PlaylistOf(playlistCycles[k]).assets[1].name = playlistCycles[k].assets[1].name
         /\ PlaylistOf(playlistCycles[k]).assets[2].id = playlistCycles[k].assets[3].id
         /\ PlaylistOf(playlistCycles[k]).assets[3].name = playlistCycles[k].assets[2].name

Returned == pc = "returned"

\* The run has entered the named stage.
Entered(stage) == \E i \in 1..Len(stages) : stages[i] = stage

\* The manifest was requested and the endpoint answered with a status
\* outside 2xx.
HttpFailure ==
    Entered("api-fetch") /\ response.kind = "http" /\ ~ResponseOk(response.status)

\* C26: when the manifest fetch answers with a non-2xx status, the result
\* returned to the caller of initializeDigitalSignage has success = false
\* and an error message that contains the status.
C26_StatusInReturnedError ==
    (Returned /\ HttpFailure) =>
        /\ ~returned[1].success
        /\ Includes(returned[1].error, ToString(response.status))

\* The position of a stage in the order of a pass.
StageRank(stage) ==
    CASE stage = "clearing" -> 1
      [] stage = "device-info" -> 2
      [] stage = "api-fetch" -> 3
      [] stage = "downloading" -> 4
      [] stage = "compile" -> 5
      [] stage = "select" -> 6

\* The manifest was requested and getData threw: the fetch failed or the
\* document did not pass validation.
ManifestFailed == Entered("api-fetch") /\ ~getData(response).ok

\* C27: the stages of a pass are entered in the order clearing (when
\* configured), device-info, api-fetch, downloading, compile, select, none
\* left out; after a failed manifest fetch or validation no later stage is
\* entered, nothing is downloaded, written or compiled, and the run ends
\* with a failure result.
C27_StagesInOrder ==
    /\ stages # << >> =>
         StageRank(stages[1]) = (IF config.clearAssetsOnStart THEN 1 ELSE 2)
    /\ \A i \in 1..(Len(stages) - 1) :
         \/ StageRank(stages[i + 1]) = StageRank(stages[i]) + 1
         \/ stages[i] = "compile" /\ stages[i + 1] = "compile"
    /\ ManifestFailed =>
         /\ stages[Len(stages)] = "api-fetch"
         /\ downloadResults = << >>
         /\ webviewManifest = << >>
         /\ playlistCycles = << >>
         /\ pc \in {"initialized", "returned"}
         /\ ~initResult[1].success
         /\ Returned => ~returned[1].success

\* A run that cleared the directory, probed the device and was sent a
\* document that fails validation has returned.
C27_Witness ==
    /\ Returned
    /\ ManifestFailed
    /\ response.kind = "data"
    /\ stages = << "clearing", "device-info", "api-fetch" >>
    /\ ~returned[1].success

\* A string field that is present and not empty.
NonEmptyString(v) == v.t = "string" /\ v.s # << >>

\* Every playlist and every asset of the document has each required field,
\* not empty and of the kind the schema names: strings for the asset
\* fields, a boolean default flag, a boolean is_restarting.
WellFormed(data) ==
    /\ data.functions.is_restarting.t = "boolean"
    /\ \A i \in 1..Len(data.playlists) :
         /\ data.playlists[i].id # ""
         /\ data.playlists[i].name # ""
         /\ data.playlists[i].is_default.t = "boolean"
         /\ \A j \in 1..Len(data.playlists[i].assets) :
              /\ data.playlists[i].assets[j].id # ""
              /\ data.playlists[i].assets[j].name # ""
              /\ data.playlists[i].assets[j].filepath # << >>
              /\ data.playlists[i].assets[j].filetype # ""
              /\ NonEmptyString(data.playlists[i].assets[j].playing_order)
              /\ NonEmptyString(data.playlists[i].assets[j].time)

\* C28: a document the endpoint sends is accepted as the manifest exactly
\* when every playlist and every asset of it has every required field,
\* non-empty and of the expected kind; one defective playlist or asset
\* rejects the whole document.
C28_AcceptedIffWellFormed ==
    (Entered("api-fetch") /\ response.kind = "data") =>
        (apiResponse # << >> <=> WellFormed(response.data[1]))

\* The default-flagged cycle that comes first, else the first cycle.
FirstDefaultOrFirst(cycles) ==
    IF \E i \in 1..Len(cycles) : cycles[i].isDefault = Bool(TRUE)
    THEN cycles[CHOOSE i \in 1..Len(cycles) :
                  /\ cycles[i].isDefault = Bool(TRUE)
                  /\ \A k \in 1..Len(cycles) : cycles[k].isDefault = Bool(TRUE) => i <= k]
    ELSE cycles[1]

\* C29: initializeDigitalSignage returns success = true only with at least
\* one cycle whose default-flagged or else first cycle has an asset; a pass
\* that initialize() ended successfully with no cycle is returned as a
\* failure.
C29_SuccessNeedsPlayableCycle ==
    Returned =>
        /\ returned[1].success =>
             /\ Len(returned[1].playlistCycles) >= 1
             /\ Len(FirstDefaultOrFirst(returned[1].playlistCycles).assets) >= 1
        /\ (initResult[1].success /\ initResult[1].playlistCycles = << >>) =>
             ~returned[1].success

\* A pass whose downloads all failed: initialize() succeeded with no
\* cycle, the entry point returned a failure.
C29_Witness ==
    /\ Returned
    /\ Len(downloadResults) >= 1
    /\ initResult[1].success
    /\ initResult[1].playlistCycles = << >>
    /\ ~returned[1].success

\* C30: the default playlist of a successful result is the first
\* default-flagged cycle if there is one and the first cycle otherwise; it
\* is never absent.
C30_DefaultPlaylistSelected ==
    (Returned /\ returned[1].success) =>
        returned[1].defaultPlaylist = << FirstDefaultOrFirst(returned[1].playlistCycles) >>

(***************************************************************************)
(* The filename of a downloaded asset.  Strings are sequences of their     *)
(* characters.                                                             *)
(***************************************************************************)
Lower == << "a", "b", "c", "d", "e", "f", "g", "h", "i", "j", "k", "l", "m",
            "n", "o", "p", "q", "r", "s", "t", "u", "v", "w", "x", "y", "z" >>
Upper == << "A", "B", "C", "D", "E", "F", "G", "H", "I", "J", "K", "L", "M",
            "N", "O", "P", "Q", "R", "S", "T", "U", "V", "W", "X", "Y", "Z" >>

\* The characters the pattern [a-zA-Z0-9.-] matches.
SafeChars ==
    { Lower[i] : i \in 1..Len(Lower) } \cup { Upper[i] : i \in 1..Len(Upper) }
    \cup { Digits[i] : i \in 1..Len(Digits) } \cup { ".", "-" }

\* filename.replace(/[^a-zA-Z0-9.-]/g, "_")
ReplaceUnsafe(s) == [i \in 1..Len(s) |-> IF s[i] \in SafeChars THEN s[i] ELSE "_"]

\* s.toLowerCase()
ToLowerCase(s) ==
    [i \in 1..Len(s) |->
        IF \E k \in 1..Len(Upper) : Upper[k] = s[i]
        THEN Lower[CHOOSE k \in 1..Len(Upper) : Upper[k] = s[i]]
        ELSE s[i]]

\* s.startsWith(prefix)
StartsWith(s, prefix) ==
    Len(s) >= Len(prefix) /\ SubSeq(s, 1, Len(prefix)) = prefix

\* s.includes(c) for a single character c
IncludesChar(s, c) == \E i \in 1..Len(s) : s[i] = c

\* The first position of s holding a character of C, Len(s) + 1 if none.
IndexOfAny(s, C) ==
    IF \E i \in 1..Len(s) : s[i] \in C
    THEN CHOOSE i \in 1..Len(s) : s[i] \in C /\ \A k \in 1..(i - 1) : s[k] \notin C
    ELSE Len(s) + 1

\* new URL(url).pathname of an http(s) URL whose path needs no escaping:
\* what follows the host, up to the query or the fragment; "/" if nothing.
Pathname(url) ==
    LET colon == IndexOfAny(url, {":"})
        rest  == SubSeq(url, colon + 3, Len(url))
        slash == IndexOfAny(rest, {"/", "?", "#"})
    IN  IF slash > Len(rest) \/ rest[slash] # "/"
        THEN << "/" >>
        ELSE LET path == SubSeq(rest, slash, Len(rest))
             IN  SubSeq(path, 1, IndexOfAny(path, {"?", "#"}) - 1)

\* pathParts[pathParts.length - 1] of pathname.split("/")
LastPathPart(pathname) ==
    LET slashes == { i \in 1..Len(pathname) : pathname[i] = "/" }
        last    == IF slashes = {} THEN 0
                   ELSE CHOOSE i \in slashes : \A k \in slashes : k <= i
    IN  SubSeq(pathname, last + 1, Len(pathname))

getExtensionFromFiletype(filetype) ==
    LET t == ToLowerCase(filetype)
    IN  CASE t = << "s", "t", "r", "e", "a", "m" >> -> << ".", "m", "3", "u", "8" >>
          [] t = << "v", "i", "d", "e", "o" >> -> << ".", "m", "p", "4" >>
          [] t = << "a", "u", "d", "i", "o" >> -> << ".", "m", "p", "3" >>
          [] t = << "i", "m", "a", "g", "e" >> -> << ".", "j", "p", "g" >>
          [] t = << "t", "e", "x", "t" >> -> << ".", "t", "x", "t" >>
          [] OTHER -> << ".", "b", "i", "n" >>

\* generateSafeFilename: the name or the last part of the URL, cleaned,
\* with an extension, prefixed by the identifier and an underscore.
generateSafeFilename(asset) ==
    LET urlFilename == LastPathPart(Pathname(asset.filepath))
        filename == IF /\ StartsWith(asset.filepath, << "h", "t", "t", "p" >>)
                       /\ urlFilename # << >>
                       /\ IncludesChar(urlFilename, ".")
                    THEN urlFilename
                    ELSE asset.name
        clean == ReplaceUnsafe(filename)
        withExtension == IF IncludesChar(clean, ".")
                         THEN clean
                         ELSE clean \o getExtensionFromFiletype(asset.filetype)
    IN  asset.id \o << "_" >> \o withExtension

\* Assets of a manifest, reduced to the fields generateSafeFilename reads.
\* Identifiers may hold an underscore; names may coincide, hold a space or
\* an extension; a location is a URL with or without a file name, or a path.
FileAssetIds == { << "a" >>, << "a", "_", "b" >>, << "b" >> }
FileAssetNames == { << "b", " ", "c" >>, << "c" >>, << "c", ".", "j", "p", "g" >> }
FileAssetPaths ==
    { << "h", "t", "t", "p", ":", "/", "/", "h", "/", "x" >>,
      << "h", "t", "t", "p", "s", ":", "/", "/", "h", "/", "d", "/", "c", ".", "j", "p", "g", "?", "v", "=", "1" >>,
      << "/", "d", "/", "c", ".", "j", "p", "g" >> }
FileAssetTypes == { << "i", "m", "a", "g", "e" >>, << "V", "i", "d", "e", "o" >>, << "p", "d", "f" >> }

FileAsset ==
    [id : FileAssetIds, name : FileAssetNames, filepath : FileAssetPaths,
     filetype : FileAssetTypes]

FilenameInit ==
    /\ CyclerIdle
    /\ DlIdle
    /\ OrchIdle
    /\ AppIdle
    /\ fnAssets \in FileAsset \X FileAsset
    /\ filenames = << << >>, << >> >>

\* The downloader derives the filename of asset k.
GenerateSafeFilename(k) ==
    /\ filenames[k] = << >>
    /\ filenames' = [filenames EXCEPT ![k] = << generateSafeFilename(fnAssets[k]) >>]
    /\ UNCHANGED << vars, dlVars, orchVars, appVars, fnAssets >>

FilenameNext == \E k \in 1..2 : GenerateSafeFilename(k)

FilenameSpec == FilenameInit /\ [][FilenameNext]_allVars

\* Both filenames have been derived.
BothDerived == filenames[1] # << >> /\ filenames[2] # << >>

\* C31: two assets with distinct identifiers get distinct filenames,
\* whatever their names, locations and file types.
C31_DistinctIdsDistinctFilenames ==
    (BothDerived /\ fnAssets[1].id # fnAssets[2].id) =>
        filenames[1] # filenames[2]

(***************************************************************************)
(* The Index screen: the choice of the cycle to present, made when         *)
(* initializeDigitalSignage has returned.  A Date is its getTime() value.  *)
(***************************************************************************)
\* The start and end dates a playlist of the manifest may carry: those of
\* the cycler's playlists and a date at the end of the clock's range.
ScheduleDates == DateInputs \cup { [kind |-> "iso", t |-> MaxTime] }

\* A playlist with a date window, listing one image.
ScheduledPlaylist(flag, start, end) ==
    [Playlist(flag, << CHOOSE a \in ManifestAsset : a.name = "A" >>)
        EXCEPT !.startdate = start, !.enddate = end]

\* The sequences of 1..k playlists with date windows.
RECURSIVE ScheduledPlaylistSeqs(_)
ScheduledPlaylistSeqs(k) ==
    IF k = 0
    THEN { << >> }
    ELSE LET shorter == ScheduledPlaylistSeqs(k - 1)
         IN  (shorter \ { << >> }) \cup
             { << ScheduledPlaylist(Bool(flag), start, end) >> \o rest :
                 flag \in BOOLEAN, start \in ScheduleDates, end \in ScheduleDates,
                 rest \in { r \in shorter : Len(r) = k - 1 } }

\* What initialize() returns for the manifest with playlists ps when every
\* download succeeds.
ResultFor(ps) ==
    LET api == [functions |-> [is_restarting |-> Bool(FALSE)], playlists |-> Numbered(ps)]
        all == AllAssets(api.playlists)
        res == ResultsOf(all, [i \in 1..Len(all) |-> TRUE])
    IN  prepareFinalResult("tv", res, preparePlaylistsForCycling(api, res))

\* formatDuration(milliseconds)
formatDuration(milliseconds) ==
    LET hours == milliseconds \div (1000 * 60 * 60)
        minutes == (milliseconds % (1000 * 60 * 60)) \div (1000 * 60)
        seconds == (milliseconds % (1000 * 60)) \div 1000
    IN  IF hours > 0 THEN << ToString(hours), "h ", ToString(minutes), "m" >>
        ELSE IF minutes > 0 THEN << ToString(minutes), "m ", ToString(seconds), "s" >>
        ELSE << ToString(seconds), "s" >>

\* Math.max(0, x) of a number that is not NaN
Max0(x) == IF x > 0 THEN x ELSE 0

\* getPlaylistTimingMessage(playlistName, startDate, endDate) at time t, for
\* dates that parse.
getPlaylistTimingMessage(playlistName, startDate, endDate, t) ==
    IF Truthy(startDate) /\ JsGt(NewDate(startDate), t)
    THEN << "Playlist ", playlistName, " starts in " >>
            \o formatDuration(Max0(NewDate(startDate) - t))
    ELSE IF Truthy(endDate) /\ JsLe(NewDate(endDate), t)
    THEN << "Playlist ", playlistName, " has ended" >>
    ELSE IF Truthy(endDate)
    THEN << "Playlist ", playlistName, " ends in " >>
            \o formatDuration(Max0(NewDate(endDate) - t))
    ELSE << "Playlist ", playlistName, " is active" >>

\* The comparator of sortPlaylistsByStartDate.
ByStartDate(a, b) ==
    IF ~Truthy(a.startDate) /\ ~Truthy(b.startDate) THEN 0
    ELSE IF ~Truthy(a.startDate) THEN 1
    ELSE IF ~Truthy(b.startDate) THEN -1
    ELSE IF NewDate(a.startDate) = NaN \/ NewDate(b.startDate) = NaN THEN 0
    ELSE NewDate(a.startDate) - NewDate(b.startDate)

\* One step of the stable sort: x goes behind every element it does not
\* precede.
RECURSIVE InsertByStartDate(_, _)
InsertByStartDate(s, x) ==
    IF s = << >> THEN << x >>
    ELSE IF ByStartDate(x, Head(s)) < 0 THEN << x >> \o s
    ELSE << Head(s) >> \o InsertByStartDate(Tail(s), x)

\* sortPlaylistsByStartDate(playlists)
RECURSIVE sortPlaylistsByStartDate(_)
sortPlaylistsByStartDate(playlists) ==
    IF playlists = << >> THEN << >>
    ELSE InsertByStartDate(sortPlaylistsByStartDate(SubSeq(playlists, 1, Len(playlists) - 1)),
                           playlists[Len(playlists)])

\* getNextScheduledPlaylist(playlists) at time t: << >> is null.
getNextScheduledPlaylist(playlists, t) ==
    LET IsFuture(p) == Truthy(p.startDate) /\ JsGt(NewDate(p.startDate), t)
        futurePlaylists == SelectSeq(playlists, IsFuture)
    IN  IF Len(futurePlaylists) = 0 THEN << >>
        ELSE << sortPlaylistsByStartDate(futurePlaylists)[1] >>

\* playlists.find(playlist => isPlaylistActive(...)): << >> when none.
FindActive(cycles, t) ==
    IF \E i \in 1..Len(cycles) : isPlaylistActive(cycles[i].startDate, cycles[i].endDate, t)
    THEN << cycles[CHOOSE i \in 1..Len(cycles) :
                     /\ isPlaylistActive(cycles[i].startDate, cycles[i].endDate, t)
                     /\ \A k \in 1..(i - 1) :
                          ~isPlaylistActive(cycles[k].startDate, cycles[k].endDate, t)] >>
    ELSE << >>

\* A choice that takes the default cycle without looking at its window.
SelectActivePlaylist_DefaultUnchecked(cycles, t) ==
    IF FindDefault(cycles) # << >> THEN FindDefault(cycles) ELSE FindActive(cycles, t)

\* startInitialization's choice: the default cycle if it is active, else
\* the first active cycle, else nothing.
SelectActivePlaylist(cycles, t) ==
    LET defaultPlaylist == FindDefault(cycles)
    IN  IF /\ defaultPlaylist # << >>
           /\ isPlaylistActive(defaultPlaylist[1].startDate, defaultPlaylist[1].endDate, t)
        THEN defaultPlaylist
        ELSE FindActive(cycles, t)

\* What initializeDigitalSignage may have returned to the Index screen.
IndexResults ==
    { ResultFor(ps) : ps \in ScheduledPlaylistSeqs(MaxPlaylists) }
    \cup { Failure(<< "Initialization validation failed" >>) }

\* The Index screen is mounted and initializeDigitalSignage has returned at
\* some time of the clock; initialize's locals no longer exist and no cycler
\* has been created.
AppInit ==
    /\ currentPlaylist = [assets |-> << >>, startDate |-> [kind |-> "null", t |-> 0],
                          endDate |-> [kind |-> "null", t |-> 0]]
    /\ currentAssetIndex = 0
    /\ cycleTimer = NULL
    /\ dateCheckTimer = NULL
    /\ timeouts = << >>
    /\ intervals = {}
    /\ now \in 0..MaxTime
    /\ calls = << >>
    /\ lastOp = Op("new", "-", "void")
    /\ dateStatus = << >>
    /\ stopped = FALSE
    /\ DlIdle
    /\ FnIdle
    /\ AppIdle
    /\ config = [clearAssetsOnStart |-> TRUE, enableProgressTracking |-> TRUE]
    /\ device = ""
    /\ entries = 0
    /\ response = NoResponse
    /\ pc = "returned"
    /\ deviceName = ""
    /\ apiResponse = << >>
    /\ downloadResults = << >>
    /\ webviewManifest = << >>
    /\ playlistCycles = << >>
    /\ initResult = << >>
    /\ returned \in { << r >> : r \in IndexResults }
    /\ stages = << >>
    /\ notifications = << >>

\* startInitialization, from the return of initializeDigitalSignage on: the
\* chosen cycle goes to setCurrentPlaylist, or the error of the throw goes
\* to the catch block; finally isLoading is reset.
startInitialization ==
    /\ isLoading
    /\ returned # << >>
    /\ LET result == returned[1]
           chosen == SelectActivePlaylist(result.playlistCycles, now)
           nextPlaylist == getNextScheduledPlaylist(result.playlistCycles, now)
       IN  IF result.success
           THEN IF chosen # << >>
                THEN /\ activePlaylist' = chosen
                     /\ errorMessage' = << >>
                ELSE /\ activePlaylist' = << >>
                     /\ errorMessage' =
                          IF nextPlaylist # << >>
                          THEN << << "No active playlists. " >>
                                  \o getPlaylistTimingMessage(nextPlaylist[1].playlistName,
                                                              nextPlaylist[1].startDate,
                                                              nextPlaylist[1].endDate, now) >>
                          ELSE << << "No active playlists available and no future playlists scheduled" >> >>
           ELSE /\ activePlaylist' = << >>
                /\ errorMessage' = << IF result.error # << >> THEN result.error
                                      ELSE << "Initialization failed" >> >>
    /\ isLoading' = FALSE
    /\ UNCHANGED << vars, dlVars, orchVars, fnVars >>

AppNext == startInitialization

AppSpec == AppInit /\ [][AppNext]_allVars

\* The choice has been made for a successful result.
Chosen == ~isLoading /\ returned[1].success

\* The cycle's dates parse and now is in [start, end).
InWindow(cycle, t) ==
    /\ cycle.startDate.kind # "invalid" /\ cycle.endDate.kind # "invalid"
    /\ cycle.startDate.kind = "iso" => cycle.startDate.t <= t
    /\ cycle.endDate.kind = "iso" => t < cycle.endDate.t

\* Every date of the result's cycles parses.
DatesParse ==
    \A i \in 1..Len(returned[1].playlistCycles) :
        /\ returned[1].playlistCycles[i].startDate.kind # "invalid"
        /\ returned[1].playlistCycles[i].endDate.kind # "invalid"

\* The cycles that start after t.
Upcoming(cycles, t) ==
    { i \in 1..Len(cycles) : cycles[i].startDate.kind = "iso" /\ cycles[i].startDate.t > t }

\* C32: the Index screen hands a cycle to the webview only if now is inside
\* the cycle's window: the default cycle if it is in its window, otherwise
\* the first cycle that is.  When no cycle is in its window none is handed
\* over and the error says "No active playlists", naming the upcoming cycle
\* with the earliest start when there is one.
C32_OnlyActiveCycleDriven ==
    (Chosen /\ DatesParse) =>
        LET cycles == returned[1].playlistCycles
            InWin == { i \in 1..Len(cycles) : InWindow(cycles[i], now) }
            FirstIn == CHOOSE i \in InWin : \A k \in InWin : i <= k
            Dflt == FirstDefaultOrFirst(cycles)
        IN  /\ activePlaylist # << >> => InWindow(activePlaylist[1], now)
            /\ InWin # {} =>
                 activePlaylist =
                    << IF Dflt.isDefault = Bool(TRUE) /\ InWindow(Dflt, now)
                       THEN Dflt ELSE cycles[FirstIn] >>
            /\ InWin = {} =>
                 /\ activePlaylist = << >>
                 /\ errorMessage # << >>
                 /\ Includes(errorMessage[1], "No active playlists. ")
                      \/ Includes(errorMessage[1], "No active playlists available and no future playlists scheduled")
                 /\ Upcoming(cycles, now) # {} =>
                      \E i \in Upcoming(cycles, now) :
                         /\ \A k \in Upcoming(cycles, now) :
                              cycles[i].startDate.t <= cycles[k].startDate.t
                         /\ Includes(errorMessage[1], cycles[i].playlistName)

\* Two cycles that both start later, the second one first: nothing is
\* handed over and the error names the second cycle.
C32_Witness ==
    /\ Chosen
    /\ DatesParse
    /\ Len(returned[1].playlistCycles) = 2
    /\ Upcoming(returned[1].playlistCycles, now) = {1, 2}
    /\ returned[1].playlistCycles[2].startDate.t < returned[1].playlistCycles[1].startDate.t
    /\ activePlaylist = << >>
    /\ errorMessage # << >>
    /\ Includes(errorMessage[1], "p2")

\* C33: a device-name probe that throws never fails the initialization: the
\* error is swallowed, the device name stays null, in the result too, and
\* the manifest is requested next; an error the run ends with is one of the
\* manifest or download stage.
C33_ProbeFailureSwallowed ==
    (device = "throws" /\ Entered("device-info")) =>
        /\ deviceName = ""
        /\ pc = "probed" \/ Entered("api-fetch")
        /\ stages[Len(stages)] = "device-info" => pc = "probed"
        /\ initResult # << >> =>
             /\ initResult[1].deviceName = ""
             /\ initResult[1].success
                  \/ initResult[1].error[1] \in {"API fetch failed: ", "Asset download failed: "}
        /\ returned # << >> => returned[1].deviceName = ""

\* The probe threw and the run was returned as a success.
C33_Witness ==
    /\ device = "throws"
    /\ Entered("device-info")
    /\ Returned
    /\ returned[1].success
    /\ returned[1].deviceName = ""

C35_MonitoredWhilePresenting == DOMAIN timeouts # {} => intervals # {}

(***************************************************************************)
(* C36: the cycler's private isPlaylistActive and the date utility         *)
(* isPlaylistActive give the same verdict for every current time, start    *)
(* and end, now = start and now = end included.                            *)
(***************************************************************************)
C36_WindowChecksAgree ==
    /\ lastOp.op = "isPlaylistActive" =>
         ((lastOp.ret = "true") <=> AssetCycler_isPlaylistActive(currentPlaylist, now))
    /\ dateStatus # << >> =>
         (dateStatus[1].isActive <=>
            isPlaylistActive(currentPlaylist.startDate, currentPlaylist.endDate, now))

(***************************************************************************)
(* C37: stopCycle leaves the current asset index unchanged, and a          *)
(* startCycle that follows it and starts presents the asset at that index, *)
(* not the first one.                                                      *)
(***************************************************************************)
C37_StopKeepsIndex ==
    [][/\ lastOp'.op = "stopCycle" => currentAssetIndex' = currentAssetIndex
       /\ (lastOp.op = "stopCycle" /\ lastOp'.op = "startCycle" /\ calls' # << >>) =>
            /\ currentAssetIndex' = currentAssetIndex
            /\ calls' = << [asset |-> assets[currentAssetIndex + 1],
                            remainingTime |-> assets[currentAssetIndex + 1].displayTime] >>]_vars

\* A cycle started again at its second or third asset: before this
\* startCycle no advance timer was pending, so the cycle had been stopped
\* after it left the first asset.
C37_Witness ==
    /\ lastOp.op = "startCycle"
    /\ currentAssetIndex > 0
    /\ calls = << [asset |-> assets[currentAssetIndex + 1],
                   remainingTime |-> assets[currentAssetIndex + 1].displayTime] >>
    /\ assets[currentAssetIndex + 1] # assets[1]
    /\ Cardinality(DOMAIN timeouts) = 1

\* The cycler from startCycle on when no stopCycle or skipToAsset call is
\* made: startCycle calls, the two timer callbacks and the clock.
UninterruptedNext ==
    \/ startCycle
    \/ \E h \in Handles : AdvanceTimerFires(h)
    \/ \E h \in Handles : DateCheckTimerFires(h)
    \/ Tick

\* The event loop runs every pending timer and the clock advances.
UninterruptedFairSpec ==
    /\ Init
    /\ [][UninterruptedNext]_vars
    /\ \A h \in Handles : WF_vars(AdvanceTimerFires(h))
    /\ \A h \in Handles : WF_vars(DateCheckTimerFires(h))
    /\ WF_vars(Tick)

\* The asset at index i is being presented by the step just taken.
Presented(i) == currentAssetIndex = i /\ calls # << >>

(***************************************************************************)
(* C38: when the timers fire fairly, a started cycle of n >= 1 assets that *)
(* is never stopped presents every one of its assets again and again for   *)
(* as long as its window is open, display times of 0 included: from every  *)
(* state with an advance timer held, each asset is presented later unless  *)
(* now leaves [start, end) first.                                          *)
(***************************************************************************)
C38_EveryAssetRecurs ==
    \A i \in 0..(MaxAssets - 1) :
        []((Active /\ i < NumAssets) => <>(Presented(i) \/ ~WindowOpen(now)))

\* A cycle without an end date, holding an asset of display time 0, has
\* just wrapped around to its first asset.
C38_Witness ==
    /\ lastOp.op = "advanceTimer"
    /\ NumAssets >= 2
    /\ currentPlaylist.endDate.kind = "null"
    /\ \E k \in 1..NumAssets : assets[k].displayTime = 0
    /\ Presented(0)
    /\ WindowOpen(now)

ProgressResponses ==
    { r \in Responses : r.kind = "data" => Len(r.data[1].playlists) <= 1 }

ProgressInit ==
    /\ CyclerIdle
    /\ DlIdle
    /\ FnIdle
    /\ AppIdle
    /\ config \in [clearAssetsOnStart : BOOLEAN, enableProgressTracking : BOOLEAN]
    /\ device \in DeviceProbes
    /\ entries \in 0..MaxEntries
    /\ response \in ProgressResponses
    /\ pc = "start"
    /\ deviceName = ""
    /\ apiResponse = << >>
    /\ downloadResults = << >>
    /\ webviewManifest = << >>
    /\ playlistCycles = << >>
    /\ initResult = << >>
    /\ returned = << >>
    /\ stages = << >>
    /\ notifications = << >>

ProgressSpec == ProgressInit /\ [][OrchNext]_allVars

Complete(n) == n.stage = "complete"

\* The value num / den lies within 0..100.
InRange(n) == 0 <= n.num /\ n.num <= 100 * n.den

\* The value num / den is 100.
Full(n) == n.num = 100 * n.den

\* C40: a run of initializeDigitalSignage that has returned has sent exactly
\* one complete notification, that notification is the last one of the run,
\* every notification's value lies within 0..100, and a complete
\* notification with value 100 was sent only if the result returned to the
\* caller has success = true.
C40_OneCompleteLastAndTruthful ==
    pc = "returned" =>
        /\ Cardinality({i \in 1..Len(notifications) :
                          Complete(notifications[i])}) = 1
        /\ Complete(notifications[Len(notifications)])
        /\ \A i \in 1..Len(notifications) : InRange(notifications[i])
        /\ \A i \in 1..Len(notifications) :
             Complete(notifications[i]) /\ Full(notifications[i])
                 => returned[1].success

====
